---- MODULE Spec2Model ----
(***************************************************************************)
(* Mass GitHub Repo Deleter: the session gate (verifyJWT), the OAuth       *)
(* callback and the batch delete/archive handlers of src/src/routes/auth.ts*)
(* (which holds the current auth and api route modules), with the helpers  *)
(* of src/unnamed/part_006 (utils/security) and src/src/index.ts.          *)
(*                                                                         *)
(* Strings the code inspects character by character (repository            *)
(* identifiers) are sequences of one-character strings.  Times are         *)
(* milliseconds, as Date.now() returns them.                               *)
(***************************************************************************)
EXTENDS Integers, Sequences, FiniteSets, TLC

VARIABLES
    JWT_SECRET,             \* c.env.JWT_SECRET, as its length (0: not set)
    ENVIRONMENT,            \* c.env.ENVIRONMENT
    configValidated,        \* index.ts:16
    configValidationError,  \* index.ts:17 (TRUE: an Error is stored)
    now,                    \* the last value the clock returned (ms)
    uuids,                  \* how many crypto.randomUUID() values were drawn
    jar,                    \* the user agent's cookies (oauth_state, auth_token)
    exchangeCalls,          \* POSTs made to the provider's access_token endpoint
    auth,                   \* the last /auth request and its response
    ctx,                    \* the /api request in flight: Context and handler locals
    ctx2,                   \* a second /api request, run side by side with ctx
    spentStates,            \* history: issued OAuth states a callback has checked
    RATE_LIMIT_KV,          \* c.env.RATE_LIMIT_KV is bound (TRUE) or not
    memoryRateLimitStore,   \* part_006:44, the Map of the in-memory limiter
    kvData,                 \* the contents of the key-value namespace
    gate,                   \* per request in flight: its run of a rate limiter
    admitted,               \* history: requests counted and let through, per
                            \* limiter and key
    dashboard               \* the page: state of Dashboard and of its
                            \* ConfirmModal, and the requests it has sent

vars == <<JWT_SECRET, ENVIRONMENT, configValidated, configValidationError,
          now, uuids, jar, exchangeCalls, auth, ctx, ctx2, spentStates,
          RATE_LIMIT_KV, memoryRateLimitStore, kvData, gate, admitted, dashboard>>

-----------------------------------------------------------------------------
(* Bounds of the model *)

\* longest batch of identifiers a request submits (besides the oversized one)
MaxBatch == 2
\* how many random UUIDs (OAuth states, token ids) the server draws
MaxUuids == 3
\* how many requests are inside a rate limiter at the same time
MaxInFlight == 2

-----------------------------------------------------------------------------
(* Program constants: src/unnamed/part_006 lines 4-9 *)

JWT_AUDIENCE == "mass-github-repo-deleter"
STATE_COOKIE_NAME == "oauth_state"
AUTH_COOKIE_NAME == "auth_token"
MAX_REPO_BATCH == 100
MAX_REPO_NAME_LENGTH == 100
MIN_SECRET_LENGTH == 32

-----------------------------------------------------------------------------
(* Characters and strings *)

Lower == {"a","b","c","d","e","f","g","h","i","j","k","l","m",
          "n","o","p","q","r","s","t","u","v","w","x","y","z"}
Upper == {"A","B","C","D","E","F","G","H","I","J","K","L","M",
          "N","O","P","Q","R","S","T","U","V","W","X","Y","Z"}
Digit == {"0","1","2","3","4","5","6","7","8","9"}

\* the character class [a-zA-Z0-9._-] of REPO_NAME_PATTERN
NameChars == Lower \cup Upper \cup Digit \cup {".", "_", "-"}

\* white space String.prototype.trim removes
WhiteSpace == {" ", "\t", "\n", "\r"}

SetMin(S) == CHOOSE x \in S : \A y \in S : x <= y
SetMax(S) == CHOOSE x \in S : \A y \in S : x >= y

\* repo.trim()
Trim(s) ==
    LET keep == {i \in 1..Len(s) : s[i] \notin WhiteSpace}
    IN  IF keep = {} THEN <<>> ELSE SubSeq(s, SetMin(keep), SetMax(keep))

\* /^[a-zA-Z0-9._-]+\/[a-zA-Z0-9._-]+$/.test(s)
REPO_NAME_PATTERN(s) ==
    \E k \in 2..(Len(s) - 1) :
        /\ s[k] = "/"
        /\ \A i \in 1..(k - 1) : s[i] \in NameChars
        /\ \A i \in (k + 1)..Len(s) : s[i] \in NameChars

\* repoFullName.split('/'): the segments between the slashes
RECURSIVE Split(_)
Split(s) ==
    LET slashes == {i \in 1..Len(s) : s[i] = "/"}
    IN  IF slashes = {} THEN <<s>>
        ELSE LET k == SetMin(slashes)
             IN  <<SubSeq(s, 1, k - 1)>> \o Split(SubSeq(s, k + 1, Len(s)))

\* const [owner, repo] = repoFullName.split('/')   (<<>> stands for undefined)
SplitOwner(s) == Split(s)[1]
SplitRepo(s) == IF Len(Split(s)) >= 2 THEN Split(s)[2] ELSE <<>>

-----------------------------------------------------------------------------
(* JSON values of a request body *)

JStr(s) == [t |-> "string", s |-> s, b |-> FALSE]
JBool(b) == [t |-> "boolean", s |-> <<>>, b |-> b]
JNum == [t |-> "number", s |-> <<>>, b |-> FALSE]
JUndefined == [t |-> "undefined", s |-> <<>>, b |-> FALSE]

\* body.repos: an array of JSON values, or something that is no array
JArray(items) == [t |-> "array", items |-> items]
JNoArray == [t |-> "string", items |-> <<>>]
JNoRepos == [t |-> "undefined", items |-> <<>>]

\* what reading and parsing the request body yields (parseJsonBody)
Body(read, repos, dryRun) == [read |-> read, repos |-> repos, dryRun |-> dryRun]

-----------------------------------------------------------------------------
(* Errors and their sanitising *)

\* an Error: its message, and which of the words sanitizeError looks for the
\* lower-cased message includes
Err(message, words) == [message |-> message, words |-> words]

SecretError == Err("JWT_SECRET must be at least 32 characters long", {"jwt"})
SignatureError == Err("signature verification failed", {})
AudienceError == Err("unexpected aud claim value", {})
ExpiredError == Err("exp claim timestamp check failed", {})
NullBodyError == Err("Cannot read properties of null", {})
NoErr == Err("", {})

\* errors a call of the upstream API throws
UpstreamErrors ==
    {Err("Bad credentials", {}), Err("API rate limit exceeded for user ID 1", {"api"})}

\* sanitizeError(error, isDev)
sanitizeError(error, isDev) ==
    IF ~isDev
    THEN IF error.words \cap {"jwt", "token", "auth"} # {}
         THEN "Authentication failed"
         ELSE IF error.words \cap {"github", "api"} # {}
              THEN "External service error"
              ELSE "An error occurred"
    ELSE error.message

\* const isDev = c.env?.ENVIRONMENT !== 'production'
isDev == ENVIRONMENT # "production"

\* ensureStrongSecret(secret) returns (TRUE) or throws (FALSE)
ensureStrongSecret(secret) == ~(secret < MIN_SECRET_LENGTH)

-----------------------------------------------------------------------------
(* Session tokens *)

\* jose's epoch(date): Math.floor(date.getTime() / 1000), the NumericDate of
\* the iat and exp claims and of the clock jwtVerify compares them with
Epoch(t) == t \div 1000

\* secs('10m') of setExpirationTime('10m')
EXPIRATION_SECONDS == 600

\* the claims a token carries.  "" and 0 stand for an absent claim.  sig is
\* "valid" when the HS256 signature verifies under c.env.JWT_SECRET.  t0 is
\* the instant of signing; it is history, no claim, and nothing reads it
\* but the properties.
Jwt(sig, token, githubUser, jti, aud, iss, iat, exp, t0) ==
    [sig |-> sig, token |-> token, githubUser |-> githubUser, jti |-> jti,
     aud |-> aud, iss |-> iss, iat |-> iat, exp |-> exp, t0 |-> t0]

NoJwt == Jwt("none", "", "", 0, "", "", 0, 0, 0)

\* new SignJWT(payload).setProtectedHeader(..).setExpirationTime('10m')
\*   .setIssuedAt().setJti(jti).setAudience(JWT_AUDIENCE).setIssuer(..).sign(secret)
\* at clock reading t
SignJWT(payload, jti, t) ==
    Jwt("valid", payload.token, payload.githubUser, jti, JWT_AUDIENCE,
        "mass-github-repo-deleter", Epoch(t), Epoch(t) + EXPIRATION_SECONDS, t)

\* the payload the callback signs: { token: tokenData.access_token }
CallbackPayload(access_token) == [token |-> access_token, githubUser |-> ""]

\* jwtVerify letting a token through in the second its exp names
jwtVerify_ExpInclusive(token, t) ==
    IF token.sig # "valid" THEN SignatureError
    ELSE IF token.aud # JWT_AUDIENCE THEN AudienceError
    ELSE IF token.exp # 0 /\ token.exp < Epoch(t) THEN ExpiredError
    ELSE NoErr

\* jwtVerify(token, secret, { audience: JWT_AUDIENCE }) at clock reading t:
\* the error it throws, or NoErr
jwtVerify(token, t) ==
    IF token.sig # "valid" THEN SignatureError
    ELSE IF token.aud # JWT_AUDIENCE THEN AudienceError
    ELSE IF token.exp # 0 /\ token.exp <= Epoch(t) THEN ExpiredError
    ELSE NoErr

\* the credentials of a request: the Authorization header (scheme and what
\* follows it) and the auth_token cookie
Cred(scheme, bearer, cookie) == [scheme |-> scheme, bearer |-> bearer, cookie |-> cookie]

\* extractTokenFromRequest that reads the cookie only
extractTokenFromRequest_CookieOnly(cred) ==
    IF cred.cookie # NoJwt THEN cred.cookie ELSE NoJwt

\* extractTokenFromRequest(c): the token, or NoJwt for null and for ''
extractTokenFromRequest(cred) ==
    IF cred.scheme = "Bearer" THEN cred.bearer
    ELSE IF cred.cookie # NoJwt THEN cred.cookie
    ELSE NoJwt

-----------------------------------------------------------------------------
(* Request body parsing and validation *)

\* a RequestBodyError (or, with message "", none), and the value returned
Checked(message, status, value) == [message |-> message, status |-> status, value |-> value]

\* what the callback of value.map throws for one entry ("" if it returns)
RepoEntryError(repo) ==
    IF repo.t # "string" THEN "Invalid repository identifier in request body"
    ELSE IF Len(Trim(repo.s)) > MAX_REPO_NAME_LENGTH THEN "Repository name too long"
    ELSE IF ~REPO_NAME_PATTERN(Trim(repo.s))
         THEN "Invalid repository format. Expected owner/repo"
    ELSE ""

\* validateRepoList without the check of the batch size
validateRepoList_NoSizeCheck(value) ==
    IF value.t # "array" \/ Len(value.items) = 0
    THEN Checked("Invalid request: repos must be a non-empty array", 400, <<>>)
    ELSE LET bad == {i \in 1..Len(value.items) : RepoEntryError(value.items[i]) # ""}
         IN  IF bad # {}
             THEN Checked(RepoEntryError(value.items[SetMin(bad)]), 400, <<>>)
             ELSE Checked("", 0, [i \in 1..Len(value.items) |-> Trim(value.items[i].s)])

\* validateRepoList that returns the identifiers as they were submitted
validateRepoList_NoTrim(value) ==
    IF value.t # "array" \/ Len(value.items) = 0
    THEN Checked("Invalid request: repos must be a non-empty array", 400, <<>>)
    ELSE IF Len(value.items) > MAX_REPO_BATCH
    THEN Checked("Invalid request: maximum of 100 repositories per request", 400, <<>>)
    ELSE LET bad == {i \in 1..Len(value.items) : RepoEntryError(value.items[i]) # ""}
         IN  IF bad # {}
             THEN Checked(RepoEntryError(value.items[SetMin(bad)]), 400, <<>>)
             ELSE Checked("", 0, [i \in 1..Len(value.items) |-> value.items[i].s])

\* validateRepoList(value)
validateRepoList(value) ==
    IF value.t # "array" \/ Len(value.items) = 0
    THEN Checked("Invalid request: repos must be a non-empty array", 400, <<>>)
    ELSE IF Len(value.items) > MAX_REPO_BATCH
    THEN Checked("Invalid request: maximum of 100 repositories per request", 400, <<>>)
    ELSE LET bad == {i \in 1..Len(value.items) : RepoEntryError(value.items[i]) # ""}
         IN  IF bad # {}
             THEN Checked(RepoEntryError(value.items[SetMin(bad)]), 400, <<>>)
             ELSE Checked("", 0, [i \in 1..Len(value.items) |-> Trim(value.items[i].s)])

\* parseJsonBody(c): the RequestBodyError it throws, if any
parseJsonBody(body) ==
    IF body.read = "toolarge" THEN Checked("Request payload too large", 413, <<>>)
    ELSE IF body.read = "empty" THEN Checked("Request body is empty", 400, <<>>)
    ELSE IF body.read = "badjson" THEN Checked("Invalid JSON payload", 400, <<>>)
    ELSE Checked("", 0, <<>>)

-----------------------------------------------------------------------------
(* The context of an /api request *)

Summary(total, succeeded, failed) ==
    [total |-> total, succeeded |-> succeeded, failed |-> failed]

\* a JSON response body
Res(kind, error, dryRun, results, summary) ==
    [kind |-> kind, error |-> error, dryRun |-> dryRun, results |-> results,
     summary |-> summary]

NoRes == Res("none", "", FALSE, <<>>, Summary(0, 0, 0))
ErrorRes(error) == Res("error", error, FALSE, <<>>, Summary(0, 0, 0))

NoBody == Body("none", JNoRepos, JUndefined)
NoCred == Cred("none", NoJwt, NoJwt)

\* no request in flight
IdleCtx ==
    [pc |-> "idle", route |-> "none", cred |-> NoCred, body |-> NoBody,
     githubToken |-> "", githubUser |-> "",
     repos |-> <<>>, dryRun |-> FALSE, results |-> <<>>, i |-> 0,
     calls |-> <<>>, inflight |-> <<>>, status |-> 0, res |-> NoRes, by |-> "none",
     headers |-> {}, upstream |-> 0, page |-> 0, pages |-> <<>>, listed |-> <<>>]

\* a request that has arrived at the application
NewCtx(route, cred, body) ==
    [IdleCtx EXCEPT !.pc = "verify", !.route = route, !.cred = cred, !.body = body]

\* return c.json(res, status), by the layer `by`
Reply(c, status, res, by) ==
    [c EXCEPT !.pc = "done", !.status = status, !.res = res, !.by = by]

-----------------------------------------------------------------------------
(* index.ts: configuration check *)

\* validateConfig that lets every request pass
validateConfig_Skipped == TRUE

\* validateConfig(env) returns (TRUE) or throws (FALSE)
validateConfig ==
    IF configValidated THEN ~configValidationError
    ELSE ensureStrongSecret(JWT_SECRET)

\* what validateConfig leaves in configValidated / configValidationError
validateConfigState ==
    IF configValidated THEN <<configValidated, configValidationError>>
    ELSE IF ensureStrongSecret(JWT_SECRET) THEN <<TRUE, configValidationError>>
    ELSE <<configValidated, TRUE>>

\* validateConfig(env), called in this state, comes to its call of
\* ensureStrongSecret (line 27) instead of returning from the cache (20-25)
validateConfigEvaluates == ~configValidated

\* validateConfigMiddleware on an /api request
validateConfigMiddleware(c) ==
    IF validateConfig THEN c
    ELSE Reply(c, 500, ErrorRes("Server configuration error"), "config")

-----------------------------------------------------------------------------
(* verifyJWT *)

\* verifyJWT without the check of the githubUser claim
verifyJWT_NoIdentityCheck(c, t) ==
    IF ~ensureStrongSecret(JWT_SECRET)
    THEN Reply(c, 401, ErrorRes(sanitizeError(SecretError, isDev)), "verifyJWT")
    ELSE LET token == extractTokenFromRequest(c.cred)
         IN  IF token = NoJwt
             THEN Reply(c, 401, ErrorRes("Authentication required"), "verifyJWT")
             ELSE IF jwtVerify(token, t) # NoErr
             THEN Reply(c, 401, ErrorRes(sanitizeError(jwtVerify(token, t), isDev)),
                        "verifyJWT")
             ELSE IF token.token = "" \/ token.jti = 0
             THEN Reply(c, 401, ErrorRes("Invalid authentication token"), "verifyJWT")
             ELSE [c EXCEPT !.pc = "handler", !.githubToken = token.token,
                            !.githubUser = token.githubUser]

\* verifyJWT(c, next) with the clock reading t
verifyJWT(c, t) ==
    IF ~ensureStrongSecret(JWT_SECRET)
    THEN Reply(c, 401, ErrorRes(sanitizeError(SecretError, isDev)), "verifyJWT")
    ELSE LET token == extractTokenFromRequest(c.cred)
         IN  IF token = NoJwt
             THEN Reply(c, 401, ErrorRes("Authentication required"), "verifyJWT")
             ELSE IF jwtVerify(token, t) # NoErr
             THEN Reply(c, 401, ErrorRes(sanitizeError(jwtVerify(token, t), isDev)),
                        "verifyJWT")
             ELSE IF token.token = "" \/ token.jti = 0
             THEN Reply(c, 401, ErrorRes("Invalid authentication token"), "verifyJWT")
             ELSE IF token.githubUser = ""
             THEN Reply(c, 401, ErrorRes("Invalid authentication token"), "verifyJWT")
             ELSE [c EXCEPT !.pc = "handler", !.githubToken = token.token,
                            !.githubUser = token.githubUser]

-----------------------------------------------------------------------------
(* The batch handlers: POST /api/delete and POST /api/archive *)

\* an ActionResult ("" for no error)
ActionResult(repo, success, error) == [repo |-> repo, success |-> success, error |-> error]

\* what octokit.repos.get answers: it throws (ok FALSE) or returns data
\* whose owner.login is login
GetOutcome(ok, login) == [ok |-> ok, login |-> login]

\* a call made to the upstream API and what it answered
UpstreamCall(op, owner, repo, ok, login) ==
    [op |-> op, owner |-> owner, repo |-> repo, ok |-> ok, login |-> login]

\* BatchSummary counting as failed only the results of a failed action call
BatchSummary_FailedActions(repos, results) ==
    Summary(Len(repos),
            Cardinality({k \in 1..Len(results) : results[k].success}),
            Cardinality({k \in 1..Len(results) :
                             results[k].error = "GitHub API request failed"}))

\* summary: { total: repos.length, succeeded: ..filter(r => r.success).length,
\*            failed: ..filter(r => !r.success).length }
BatchSummary(repos, results) ==
    Summary(Len(repos),
            Cardinality({k \in 1..Len(results) : results[k].success}),
            Cardinality({k \in 1..Len(results) : ~results[k].success}))

\* return c.json({ dryRun, results, summary }) (archive has no dryRun member)
BatchReply(c) ==
    Reply(c, 200,
          Res(c.route, "", c.route = "delete" /\ c.dryRun, c.results,
              BatchSummary(c.repos, c.results)),
          "handler")

\* PushResult that ends the loop at the first failed identifier
PushResult_StopsOnFailure(c, result) ==
    LET pushed == [c EXCEPT !.results = Append(c.results, result), !.i = c.i + 1,
                            !.pc = "fetch"]
    IN  IF pushed.i > Len(c.repos) \/ ~result.success THEN BatchReply(pushed) ELSE pushed

\* results.push(result), then the next turn of the for loop, or the reply
\* after the last one
PushResult(c, result) ==
    LET pushed == [c EXCEPT !.results = Append(c.results, result), !.i = c.i + 1,
                            !.pc = "fetch"]
    IN  IF pushed.i > Len(c.repos) THEN BatchReply(pushed) ELSE pushed

\* the catch of the handler: a RequestBodyError keeps its status and message
BodyErrorReply(c, checked) == Reply(c, checked.status, ErrorRes(checked.message), "handler")

\* any other error: 500 with the sanitised message
ServerErrorReply(c, error) == Reply(c, 500, ErrorRes(sanitizeError(error, isDev)), "handler")

\* the handler up to its loop: body parsing and validation.  withDryRun is
\* TRUE for /delete, whose body has the dryRun member
StartBatch(c, withDryRun) ==
    LET parsed == parseJsonBody(c.body)
        repos == validateRepoList(c.body.repos)
    IN  IF parsed.message # "" THEN BodyErrorReply(c, parsed)
        ELSE IF c.body.read = "null" THEN ServerErrorReply(c, NullBodyError)
        ELSE IF withDryRun /\ c.body.dryRun.t \notin {"undefined", "boolean"}
        THEN BodyErrorReply(c, Checked("Invalid request: dryRun must be a boolean flag",
                                       400, <<>>))
        ELSE IF repos.message # "" THEN BodyErrorReply(c, repos)
        ELSE [c EXCEPT !.repos = repos.value,
                       !.dryRun = withDryRun /\ c.body.dryRun.t = "boolean"
                                             /\ c.body.dryRun.b,
                       !.results = <<>>, !.i = 1, !.pc = "fetch"]

\* FetchRepo without the comparison of owner.login with githubUser
FetchRepo_NoOwnerCheck(c, o) ==
    LET repoFullName == c.repos[c.i]
        called == [c EXCEPT !.calls = Append(c.calls,
                                UpstreamCall("get", SplitOwner(repoFullName),
                                             SplitRepo(repoFullName), o.ok, o.login))]
    IN  IF ~o.ok
        THEN PushResult(called, ActionResult(repoFullName, FALSE,
                                             "Repository not found or access denied"))
        ELSE IF c.route = "delete" /\ c.dryRun
        THEN PushResult(called, ActionResult(repoFullName, TRUE, ""))
        ELSE [called EXCEPT !.pc = "act"]

\* FetchRepo with a `continue` that pushes no result when the owner differs
FetchRepo_SilentSkip(c, o) ==
    LET repoFullName == c.repos[c.i]
        called == [c EXCEPT !.calls = Append(c.calls,
                                UpstreamCall("get", SplitOwner(repoFullName),
                                             SplitRepo(repoFullName), o.ok, o.login))]
        skipped == [called EXCEPT !.i = c.i + 1, !.pc = "fetch"]
    IN  IF ~o.ok
        THEN PushResult(called, ActionResult(repoFullName, FALSE,
                                             "Repository not found or access denied"))
        ELSE IF o.login # c.githubUser
        THEN IF skipped.i > Len(c.repos) THEN BatchReply(skipped) ELSE skipped
        ELSE IF c.route = "delete" /\ c.dryRun
        THEN PushResult(called, ActionResult(repoFullName, TRUE, ""))
        ELSE [called EXCEPT !.pc = "act"]

\* FetchRepo that goes on to the delete call whatever dryRun says
FetchRepo_IgnoreDryRun(c, o) ==
    LET repoFullName == c.repos[c.i]
        called == [c EXCEPT !.calls = Append(c.calls,
                                UpstreamCall("get", SplitOwner(repoFullName),
                                             SplitRepo(repoFullName), o.ok, o.login))]
    IN  IF ~o.ok \/ o.login # c.githubUser
        THEN PushResult(called, ActionResult(repoFullName, FALSE,
                                             "Repository not found or access denied"))
        ELSE [called EXCEPT !.pc = "act"]

\* FetchRepo with an error of its own for a repository of another owner
FetchRepo_TellsOwner(c, o) ==
    LET repoFullName == c.repos[c.i]
        called == [c EXCEPT !.calls = Append(c.calls,
                                UpstreamCall("get", SplitOwner(repoFullName),
                                             SplitRepo(repoFullName), o.ok, o.login))]
    IN  IF ~o.ok
        THEN PushResult(called, ActionResult(repoFullName, FALSE,
                                             "Repository not found or access denied"))
        ELSE IF o.login # c.githubUser
        THEN PushResult(called, ActionResult(repoFullName, FALSE,
                                             "Repository belongs to another account"))
        ELSE IF c.route = "delete" /\ c.dryRun
        THEN PushResult(called, ActionResult(repoFullName, TRUE, ""))
        ELSE [called EXCEPT !.pc = "act"]

\* one turn of the loop up to the end of `await octokit.repos.get`, which
\* answers o, and on to the next await
FetchRepo(c, o) ==
    LET repoFullName == c.repos[c.i]
        owner == SplitOwner(repoFullName)
        repo == SplitRepo(repoFullName)
        called == [c EXCEPT !.calls = Append(c.calls,
                                UpstreamCall("get", owner, repo, o.ok, o.login))]
        denied == ActionResult(repoFullName, FALSE, "Repository not found or access denied")
    IN  IF ~o.ok THEN PushResult(called, denied)
        ELSE IF o.login # c.githubUser THEN PushResult(called, denied)
        ELSE IF c.route = "delete" /\ c.dryRun
        THEN PushResult(called, ActionResult(repoFullName, TRUE, ""))
        ELSE [called EXCEPT !.pc = "act"]

\* ActOnRepo whose failed call is not caught in the loop but by the catch of
\* the handler
ActOnRepo_Throws(c, ok) ==
    LET repoFullName == c.repos[c.i]
        op == IF c.route = "delete" THEN "delete" ELSE "update"
        called == [c EXCEPT !.calls = Append(c.calls,
                                UpstreamCall(op, SplitOwner(repoFullName),
                                             SplitRepo(repoFullName), ok, ""))]
    IN  IF ok THEN PushResult(called, ActionResult(repoFullName, TRUE, ""))
        ELSE ServerErrorReply(called, Err("Request failed", {}))

\* ActOnRepo that reports the message of the error the failed call threw
ActOnRepo_RawError(c, ok) ==
    LET repoFullName == c.repos[c.i]
        op == IF c.route = "delete" THEN "delete" ELSE "update"
        called == [c EXCEPT !.calls = Append(c.calls,
                                UpstreamCall(op, SplitOwner(repoFullName),
                                             SplitRepo(repoFullName), ok, ""))]
        thrown == CHOOSE error \in UpstreamErrors : TRUE
    IN  IF ok THEN PushResult(called, ActionResult(repoFullName, TRUE, ""))
        ELSE PushResult(called, ActionResult(repoFullName, FALSE, thrown.message))

\* the rest of the turn: `await octokit.repos.delete` or `await
\* octokit.repos.update({ archived: true })`, which returns (ok) or throws
ActOnRepo(c, ok) ==
    LET repoFullName == c.repos[c.i]
        owner == SplitOwner(repoFullName)
        repo == SplitRepo(repoFullName)
        op == IF c.route = "delete" THEN "delete" ELSE "update"
        called == [c EXCEPT !.calls = Append(c.calls,
                                UpstreamCall(op, owner, repo, ok, ""))]
    IN  IF ok THEN PushResult(called, ActionResult(repoFullName, TRUE, ""))
        ELSE PushResult(called, ActionResult(repoFullName, FALSE, "GitHub API request failed"))

\* a call handed to octokit for the identifier of turn i, not yet answered
PendingCall(op, owner, repo, i) == [op |-> op, owner |-> owner, repo |-> repo, i |-> i]

\* IssueCall that does not await a fetch but goes on to issue the next one
IssueCall_NoAwait(c, op) ==
    LET repoFullName == c.repos[c.i]
        issued == [c EXCEPT !.inflight =
                       Append(c.inflight, PendingCall(op, SplitOwner(repoFullName),
                                                      SplitRepo(repoFullName), c.i))]
    IN  IF op = "get" /\ c.i < Len(c.repos) THEN [issued EXCEPT !.i = c.i + 1]
        ELSE [issued EXCEPT !.pc = "await"]

\* `await octokit.repos.get({ owner, repo })` and `await octokit.repos.delete /
\* update(..)` up to the suspension: the call is issued and the handler waits
IssueCall(c, op) ==
    LET repoFullName == c.repos[c.i]
    IN  [c EXCEPT !.inflight = Append(c.inflight,
                                      PendingCall(op, SplitOwner(repoFullName),
                                                  SplitRepo(repoFullName), c.i)),
                  !.pc = "await"]

\* the awaited promise settles and the handler resumes
ResumeCall(c) == [c EXCEPT !.inflight = Tail(c.inflight)]

\* const perPage = 100
PER_PAGE == 100

\* what octokit.repos.listForAuthenticatedUser({ per_page, page, .. }) returns
\* of a list of n repositories: the repositories are named by their place in
\* the provider's order
PageOf(n, perPage, page) ==
    LET first == (page - 1) * perPage + 1
        last == IF page * perPage < n THEN page * perPage ELSE n
    IN  [k \in 1..(IF last >= first THEN last - first + 1 ELSE 0) |-> first + k - 1]

\* GET /api/repos up to its loop (lines 340-346)
StartList(c) == [c EXCEPT !.pc = "page", !.page = 1, !.pages = <<>>, !.listed = <<>>]

\* return c.json(repos)
ListReply(c, repos) ==
    Reply(c, 200, Res("repos", "", FALSE, repos, Summary(0, 0, 0)), "handler")

\* NextPage that ends the loop after every page that is not empty
NextPage_StopsAtFirst(c, data) ==
    LET asked == [c EXCEPT !.pages = Append(c.pages, c.page)]
        pushed == [asked EXCEPT !.listed = c.listed \o data]
    IN  IF Len(data) = 0 THEN ListReply(asked, asked.listed)
        ELSE ListReply(pushed, pushed.listed)

\* one turn of the while loop after the page has been returned (lines
\* 357-373), and the reply after the loop
NextPage(c, data) ==
    LET asked == [c EXCEPT !.pages = Append(c.pages, c.page)]
        pushed == [asked EXCEPT !.listed = c.listed \o data]
    IN  IF Len(data) = 0 THEN ListReply(asked, asked.listed)
        ELSE IF Len(data) < PER_PAGE THEN ListReply(pushed, pushed.listed)
        ELSE [pushed EXCEPT !.page = c.page + 1]

\* GET /api/session
SessionReply(c) == Reply(c, 200, Res("session", "", FALSE, <<>>, Summary(0, 0, 0)), "handler")

-----------------------------------------------------------------------------
(* The requests the model submits *)

IdAX == <<"a", "/", "x">>
IdPadded == <<" ", "a", "/", "x", " ">>
IdBY == <<"b", "/", "y">>
IdDotDot == <<".", ".", "/", "e", "t", "c">>
IdNoSlash == <<"a", "x">>
IdTooLong == [k \in 1..(MAX_REPO_NAME_LENGTH + 1) |-> IF k = 2 THEN "/" ELSE "a"]

\* entries of a submitted repos array
Entries == {JStr(IdAX), JStr(IdPadded), JStr(IdBY), JStr(IdDotDot),
            JStr(IdNoSlash), JStr(IdTooLong), JNum}

RECURSIVE SeqsUpTo(_, _)
SeqsUpTo(S, n) ==
    IF n = 0 THEN {<<>>}
    ELSE LET shorter == SeqsUpTo(S, n - 1)
         IN  shorter \cup {Append(q, e) : q \in {r \in shorter : Len(r) = n - 1}, e \in S}

\* submitted repos members: arrays of up to MaxBatch entries, one array above
\* MAX_REPO_BATCH, a value that is no array, and no member at all
ReposValues ==
    {JArray(q) : q \in SeqsUpTo(Entries, MaxBatch)}
        \cup {JArray([k \in 1..(MAX_REPO_BATCH + 1) |-> JStr(IdAX)]), JNoArray, JNoRepos}

DryRunValues == {JUndefined, JBool(TRUE), JBool(FALSE), JStr(<<"y", "e", "s">>)}

Bodies ==
    {Body("ok", r, d) : r \in ReposValues, d \in DryRunValues}
        \cup {Body(x, JNoRepos, JUndefined) : x \in {"toolarge", "empty", "badjson", "null"}}

Logins == {"alice", "bob"}

GetOutcomes == {GetOutcome(FALSE, "")} \cup {GetOutcome(TRUE, l) : l \in Logins}

\* a well-formed session: signed at t0 over the upstream token and the identity
SessionJwt(user, t0) == SignJWT([token |-> "gho_token", githubUser |-> user], 1, t0)

\* tokens a client may present: sessions, what the callback signs, and
\* tokens spoiled in one respect each
Spoiled(j) ==
    {[j EXCEPT !.sig = "invalid"], [j EXCEPT !.aud = "other-app"], [j EXCEPT !.aud = ""],
     [j EXCEPT !.token = ""], [j EXCEPT !.jti = 0], [j EXCEPT !.githubUser = ""]}

PresentedJwts(T) ==
    {SessionJwt(u, t0) : u \in Logins, t0 \in T}
        \cup UNION {Spoiled(SessionJwt("alice", t0)) : t0 \in T}
        \cup {SignJWT(CallbackPayload("gho_token"), 1, t0) : t0 \in T}

-----------------------------------------------------------------------------
(* Actions of an /api request *)

\* the variables of the /auth routes
authVars == <<uuids, jar, exchangeCalls, auth, spentStates>>

\* the variables of the rate limiters
gateVars == <<RATE_LIMIT_KV, memoryRateLimitStore, kvData, gate, admitted>>
envVars == <<JWT_SECRET, ENVIRONMENT>>

\* a request arrives and passes index.ts's validateConfigMiddleware
Receive(routes, creds, bodies) ==
    /\ ctx.pc = "idle"
    /\ \E route \in routes, cred \in creds, body \in bodies :
           ctx' = validateConfigMiddleware(NewCtx(route, cred, body))
    /\ configValidated' = validateConfigState[1]
    /\ configValidationError' = validateConfigState[2]
    /\ UNCHANGED <<envVars, dashboard, gateVars, now, authVars, ctx2>>

\* the verifyJWT middleware; jwtVerify reads the clock
Verify(T) ==
    /\ ctx.pc = "verify"
    /\ \E t \in T :
           /\ t >= now
           /\ now' = t
           /\ ctx' = verifyJWT(ctx, t)
    /\ UNCHANGED <<envVars, dashboard, gateVars, configValidated, configValidationError, authVars, ctx2>>

\* the route handler starts
Handle ==
    /\ ctx.pc = "handler"
    /\ ctx' = IF ctx.route = "session" THEN SessionReply(ctx)
              ELSE IF ctx.route = "repos" THEN StartList(ctx)
              ELSE StartBatch(ctx, ctx.route = "delete")
    /\ UNCHANGED <<envVars, dashboard, gateVars, configValidated, configValidationError, now, authVars, ctx2>>

\* octokit.repos.get answers
Fetch ==
    /\ ctx.pc = "fetch"
    /\ \E o \in GetOutcomes : ctx' = FetchRepo(ctx, o)
    /\ UNCHANGED <<envVars, dashboard, gateVars, configValidated, configValidationError, now, authVars, ctx2>>

\* octokit.repos.delete / octokit.repos.update answers
Act ==
    /\ ctx.pc = "act"
    /\ \E ok \in BOOLEAN : ctx' = ActOnRepo(ctx, ok)
    /\ UNCHANGED <<envVars, dashboard, gateVars, configValidated, configValidationError, now, authVars, ctx2>>

\* the handler issues octokit.repos.get and suspends
IssueFetch ==
    /\ ctx.pc = "fetch"
    /\ ctx' = IssueCall(ctx, "get")
    /\ UNCHANGED <<envVars, dashboard, gateVars, configValidated, configValidationError, now, authVars, ctx2>>

\* the handler issues octokit.repos.delete / octokit.repos.update and suspends
IssueAct ==
    /\ ctx.pc = "act"
    /\ ctx' = IssueCall(ctx, IF ctx.route = "delete" THEN "delete" ELSE "update")
    /\ UNCHANGED <<envVars, dashboard, gateVars, configValidated, configValidationError, now, authVars, ctx2>>

\* the pending octokit.repos.get answers and the handler resumes
AwaitFetch ==
    /\ ctx.pc = "await"
    /\ Head(ctx.inflight).op = "get"
    /\ \E o \in GetOutcomes : ctx' = FetchRepo(ResumeCall(ctx), o)
    /\ UNCHANGED <<envVars, dashboard, gateVars, configValidated, configValidationError, now, authVars, ctx2>>

\* the pending octokit.repos.delete / update answers and the handler resumes
AwaitAct ==
    /\ ctx.pc = "await"
    /\ Head(ctx.inflight).op # "get"
    /\ \E ok \in BOOLEAN : ctx' = ActOnRepo(ResumeCall(ctx), ok)
    /\ UNCHANGED <<envVars, dashboard, gateVars, configValidated, configValidationError, now, authVars, ctx2>>

\* await octokit.repos.listForAuthenticatedUser(..) returns a page of the
\* account's list, whose size is one of sizes and does not change while it is
\* listed, or throws
ListPage(sizes) ==
    /\ ctx.pc = "page"
    /\ \E n \in sizes :
           /\ ctx.page > 1 => n = ctx.upstream
           /\ \/ ctx' = NextPage([ctx EXCEPT !.upstream = n], PageOf(n, PER_PAGE, ctx.page))
              \/ \E error \in UpstreamErrors :
                     ctx' = ServerErrorReply([ctx EXCEPT !.upstream = n,
                                                         !.pages = Append(ctx.pages, ctx.page)],
                                             error)
    /\ UNCHANGED <<envVars, dashboard, gateVars, configValidated, configValidationError, now, authVars, ctx2>>

\* the response has been sent; the request's Context is dropped
Finish ==
    /\ ctx.pc = "done"
    /\ ctx' = IdleCtx
    /\ UNCHANGED <<envVars, dashboard, gateVars, configValidated, configValidationError, now, authVars, ctx2>>

-----------------------------------------------------------------------------
(* The /auth routes: login, callback, logout *)

\* serialize(name, value, { maxAge, .. }): a Set-Cookie header.  The value is
\* an OAuth state (a UUID, by its number; 0 for '') or a session token
SetCookie(name, state, token, maxAge) ==
    [name |-> name, state |-> state, token |-> token, maxAge |-> maxAge,
     httpOnly |-> TRUE]

\* a URL: its path, and the OAuth state and the session token its query
\* string carries (0 and NoJwt for none)
Url(path, state, token) == [path |-> path, state |-> state, token |-> token]

\* no Location header
NoUrl == Url("", 0, NoJwt)

\* clearCookie(name)
clearCookie(name) == SetCookie(name, 0, NoJwt, 0)

\* the response to an /auth request, with the request's own inputs: code and
\* state of the query, the oauth_state cookie it carried, and whether the
\* handler posted to the provider's access_token endpoint
AuthRes(route, code, state, storedState, status, error, location, setCookies, exchanged, by) ==
    [route |-> route, code |-> code, state |-> state, storedState |-> storedState,
     status |-> status, error |-> error, location |-> location,
     setCookies |-> setCookies, exchanged |-> exchanged, by |-> by]

\* what the user agent keeps of a response's Set-Cookie headers
RECURSIVE StoreCookies(_, _)
StoreCookies(cookies, setCookies) ==
    IF setCookies = <<>> THEN cookies
    ELSE LET h == Head(setCookies)
             stored == IF h.name = STATE_COOKIE_NAME
                       THEN [cookies EXCEPT !.oauth_state = IF h.maxAge = 0 THEN 0 ELSE h.state]
                       ELSE [cookies EXCEPT !.auth_token = IF h.maxAge = 0 THEN NoJwt ELSE h.token]
         IN  StoreCookies(stored, Tail(setCookies))

\* authRoutes.get('/login'): state is the UUID drawn
login(state) ==
    AuthRes("login", "", 0, 0, 302, "",
            Url("https://github.com/login/oauth/authorize", state, NoJwt),
            <<SetCookie(STATE_COOKIE_NAME, state, NoJwt, 600)>>, FALSE, "handler")

\* authRoutes.get('/callback') without the comparison of state and cookie
callback_NoStateCheck(code, state, storedState, provider, jti, t) ==
    IF ~ensureStrongSecret(JWT_SECRET)
    THEN AuthRes("callback", code, state, storedState, 500, "Authentication failed", NoUrl,
                 <<>>, FALSE, "handler")
    ELSE IF code = ""
    THEN AuthRes("callback", code, state, storedState, 400,
                 "No authorization code provided", NoUrl, <<>>, FALSE, "handler")
    ELSE IF provider = "throws"
    THEN AuthRes("callback", code, state, storedState, 500, "Authentication failed", NoUrl,
                 <<clearCookie(STATE_COOKIE_NAME)>>, TRUE, "handler")
    ELSE IF provider = ""
    THEN AuthRes("callback", code, state, storedState, 400,
                 "Failed to obtain access token", NoUrl,
                 <<clearCookie(STATE_COOKIE_NAME)>>, TRUE, "handler")
    ELSE AuthRes("callback", code, state, storedState, 302, "", Url("/", 0, NoJwt),
                 <<clearCookie(STATE_COOKIE_NAME),
                   SetCookie(AUTH_COOKIE_NAME, 0, SignJWT(CallbackPayload(provider), jti, t), 600)>>,
                 TRUE, "handler")

\* authRoutes.get('/callback') without the check of tokenData.access_token
callback_NoTokenCheck(code, state, storedState, provider, jti, t) ==
    IF ~ensureStrongSecret(JWT_SECRET)
    THEN AuthRes("callback", code, state, storedState, 500, "Authentication failed", NoUrl,
                 <<>>, FALSE, "handler")
    ELSE IF code = ""
    THEN AuthRes("callback", code, state, storedState, 400,
                 "No authorization code provided", NoUrl, <<>>, FALSE, "handler")
    ELSE IF state = 0 \/ storedState = 0 \/ storedState # state
    THEN AuthRes("callback", code, state, storedState, 400,
                 "Invalid OAuth state parameter", NoUrl,
                 <<clearCookie(STATE_COOKIE_NAME)>>, FALSE, "handler")
    ELSE IF provider = "throws"
    THEN AuthRes("callback", code, state, storedState, 500, "Authentication failed", NoUrl,
                 <<clearCookie(STATE_COOKIE_NAME)>>, TRUE, "handler")
    ELSE AuthRes("callback", code, state, storedState, 302, "", Url("/", 0, NoJwt),
                 <<clearCookie(STATE_COOKIE_NAME),
                   SetCookie(AUTH_COOKIE_NAME, 0, SignJWT(CallbackPayload(provider), jti, t), 600)>>,
                 TRUE, "handler")

\* authRoutes.get('/callback') redirecting to `/?auth=${jwt}`, as lines 59-60 did
callback_TokenInUrl(code, state, storedState, provider, jti, t) ==
    IF ~ensureStrongSecret(JWT_SECRET)
    THEN AuthRes("callback", code, state, storedState, 500, "Authentication failed", NoUrl,
                 <<>>, FALSE, "handler")
    ELSE IF code = ""
    THEN AuthRes("callback", code, state, storedState, 400,
                 "No authorization code provided", NoUrl, <<>>, FALSE, "handler")
    ELSE IF state = 0 \/ storedState = 0 \/ storedState # state
    THEN AuthRes("callback", code, state, storedState, 400,
                 "Invalid OAuth state parameter", NoUrl,
                 <<clearCookie(STATE_COOKIE_NAME)>>, FALSE, "handler")
    ELSE IF provider = "throws"
    THEN AuthRes("callback", code, state, storedState, 500, "Authentication failed", NoUrl,
                 <<clearCookie(STATE_COOKIE_NAME)>>, TRUE, "handler")
    ELSE IF provider = ""
    THEN AuthRes("callback", code, state, storedState, 400,
                 "Failed to obtain access token", NoUrl,
                 <<clearCookie(STATE_COOKIE_NAME)>>, TRUE, "handler")
    ELSE AuthRes("callback", code, state, storedState, 302, "",
                 Url("/", 0, SignJWT(CallbackPayload(provider), jti, t)),
                 <<clearCookie(STATE_COOKIE_NAME),
                   SetCookie(AUTH_COOKIE_NAME, 0, SignJWT(CallbackPayload(provider), jti, t), 600)>>,
                 TRUE, "handler")

\* authRoutes.get('/callback') that leaves the state cookie when the state matches
callback_StateKept(code, state, storedState, provider, jti, t) ==
    IF ~ensureStrongSecret(JWT_SECRET)
    THEN AuthRes("callback", code, state, storedState, 500, "Authentication failed", NoUrl,
                 <<>>, FALSE, "handler")
    ELSE IF code = ""
    THEN AuthRes("callback", code, state, storedState, 400,
                 "No authorization code provided", NoUrl, <<>>, FALSE, "handler")
    ELSE IF state = 0 \/ storedState = 0 \/ storedState # state
    THEN AuthRes("callback", code, state, storedState, 400,
                 "Invalid OAuth state parameter", NoUrl,
                 <<clearCookie(STATE_COOKIE_NAME)>>, FALSE, "handler")
    ELSE IF provider = "throws"
    THEN AuthRes("callback", code, state, storedState, 500, "Authentication failed", NoUrl,
                 <<clearCookie(STATE_COOKIE_NAME)>>, TRUE, "handler")
    ELSE IF provider = ""
    THEN AuthRes("callback", code, state, storedState, 400,
                 "Failed to obtain access token", NoUrl,
                 <<clearCookie(STATE_COOKIE_NAME)>>, TRUE, "handler")
    ELSE AuthRes("callback", code, state, storedState, 302, "", Url("/", 0, NoJwt),
                 <<SetCookie(AUTH_COOKIE_NAME, 0, SignJWT(CallbackPayload(provider), jti, t), 600)>>,
                 TRUE, "handler")

\* authRoutes.get('/callback').  provider is what the access_token endpoint
\* answers: an access token, "" for a body without one, "throws" when the
\* fetch or its json() fails; jti is the UUID drawn, t the clock reading
callback(code, state, storedState, provider, jti, t) ==
    IF ~ensureStrongSecret(JWT_SECRET)
    THEN AuthRes("callback", code, state, storedState, 500, "Authentication failed", NoUrl,
                 <<>>, FALSE, "handler")
    ELSE IF code = ""
    THEN AuthRes("callback", code, state, storedState, 400,
                 "No authorization code provided", NoUrl, <<>>, FALSE, "handler")
    ELSE IF state = 0 \/ storedState = 0 \/ storedState # state
    THEN AuthRes("callback", code, state, storedState, 400,
                 "Invalid OAuth state parameter", NoUrl,
                 <<clearCookie(STATE_COOKIE_NAME)>>, FALSE, "handler")
    ELSE IF provider = "throws"
    THEN AuthRes("callback", code, state, storedState, 500, "Authentication failed", NoUrl,
                 <<clearCookie(STATE_COOKIE_NAME)>>, TRUE, "handler")
    ELSE IF provider = ""
    THEN AuthRes("callback", code, state, storedState, 400,
                 "Failed to obtain access token", NoUrl,
                 <<clearCookie(STATE_COOKIE_NAME)>>, TRUE, "handler")
    ELSE AuthRes("callback", code, state, storedState, 302, "", Url("/", 0, NoJwt),
                 <<clearCookie(STATE_COOKIE_NAME),
                   SetCookie(AUTH_COOKIE_NAME, 0, SignJWT(CallbackPayload(provider), jti, t), 600)>>,
                 TRUE, "handler")

\* authRoutes.get('/logout') that clears the session cookie only
logout_KeepsState ==
    AuthRes("logout", "", 0, 0, 200, "", NoUrl,
            <<clearCookie(AUTH_COOKIE_NAME)>>, FALSE, "handler")

\* authRoutes.get('/logout')
logout ==
    AuthRes("logout", "", 0, 0, 200, "", NoUrl,
            <<clearCookie(AUTH_COOKIE_NAME), clearCookie(STATE_COOKIE_NAME)>>, FALSE, "handler")

\* the callback handler came to its comparison of state and cookie (line 133)
ReachedStateCheck(r) ==
    /\ r.route = "callback"
    /\ r.by = "handler"
    /\ ensureStrongSecret(JWT_SECRET)
    /\ r.code # ""

\* validateConfigMiddleware on an /auth request whose handler would answer r
validateConfigAuth(r) ==
    IF validateConfig THEN r
    ELSE AuthRes(r.route, r.code, r.state, r.storedState, 500,
                 "Server configuration error", NoUrl, <<>>, FALSE, "config")

\* an /auth request of the user agent is answered with r
AnswerAuth(r) ==
    /\ auth' = validateConfigAuth(r)
    /\ jar' = StoreCookies(jar, auth'.setCookies)
    /\ exchangeCalls' = exchangeCalls + (IF auth'.exchanged THEN 1 ELSE 0)
    /\ spentStates' = IF ReachedStateCheck(auth') /\ auth'.state \in 1..uuids
                      THEN spentStates \cup {auth'.state}
                      ELSE spentStates
    /\ configValidated' = validateConfigState[1]
    /\ configValidationError' = validateConfigState[2]

\* GET /auth/login
AnswerLogin ==
    /\ uuids < MaxUuids
    /\ AnswerAuth(login(uuids + 1))
    /\ uuids' = uuids + 1
    /\ UNCHANGED now

Login == AnswerLogin /\ UNCHANGED <<envVars, dashboard, gateVars, ctx, ctx2>>

\* GET /auth/callback?code=..&state=.., with the cookies of the user agent.
\* Signing reads the clock (T: the readings) and draws a UUID
AnswerCallback(T) ==
    \E code \in {"", "code"}, state \in 0..MaxUuids,
       provider \in {"gho_access", "", "throws"} :
        LET unsigned == validateConfigAuth(
                            callback(code, state, jar.oauth_state, provider, 0, now))
        IN  /\ IF unsigned.status = 302
               THEN /\ uuids < MaxUuids
                    /\ uuids' = uuids + 1
                    /\ \E t \in T :
                           /\ t >= now
                           /\ now' = t
                           /\ AnswerAuth(callback(code, state, jar.oauth_state,
                                                  provider, uuids + 1, t))
               ELSE /\ AnswerAuth(callback(code, state, jar.oauth_state, provider, 0, now))
                    /\ UNCHANGED <<uuids, now>>

Callback(T) == AnswerCallback(T) /\ UNCHANGED <<envVars, dashboard, gateVars, ctx, ctx2>>

\* GET /auth/logout
AnswerLogout ==
    /\ AnswerAuth(logout)
    /\ UNCHANGED <<now, uuids>>

Logout == AnswerLogout /\ UNCHANGED <<envVars, dashboard, gateVars, ctx, ctx2>>

-----------------------------------------------------------------------------
(* The rate limiters: createRateLimiter of src/unnamed/part_006 *)

\* a Map (and a key-value namespace): a function on the keys it holds
EmptyMap == [k \in {} |-> 0]
MapHas(m, k) == k \in DOMAIN m
MapSet(m, k, v) == [x \in (DOMAIN m) \cup {k} |-> IF x = k THEN v ELSE m[x]]
MapDelete(m, K) == [x \in (DOMAIN m) \ K |-> m[x]]

\* memoryRateLimitStore.size above which expired entries are swept
HIGH_WATER_MARK == 1000

RateLimitOptions(windowMs, limit) == [windowMs |-> windowMs, limit |-> limit]

\* createRateLimiter({ windowMs: 60_000, limit: 5 }), on /login, /callback, /logout
authRateLimiter == RateLimitOptions(60000, 5)

\* createRateLimiter({ windowMs: 60_000, limit: 10 }), on /delete and /archive
apiRateLimiter == RateLimitOptions(60000, 10)

AuthRoutes == {"login", "callback", "logout"}

\* the limiter the route was given with use()
RouteLimiter(route) == IF route \in AuthRoutes THEN authRateLimiter ELSE apiRateLimiter

\* the method of the route's handler (get() or post())
RouteMethod(route) == IF route \in AuthRoutes THEN "GET" ELSE "POST"

\* getRateLimitKey(identifier, windowMs) at clock reading t:
\* `ratelimit:${identifier}:${Math.floor(t / windowMs)}`
getRateLimitKey(identifier, windowMs, t) == <<"ratelimit", identifier, t \div windowMs>>

\* String(n) of a count, as its decimal digits
DigitSeq == <<"0", "1", "2", "3", "4", "5", "6", "7", "8", "9">>

RECURSIVE String(_)
String(n) ==
    IF n < 10 THEN <<DigitSeq[n + 1]>>
    ELSE Append(String(n \div 10), DigitSeq[(n % 10) + 1])

\* parseInt(s, 10) of a string of decimal digits
RECURSIVE parseInt(_)
parseInt(s) ==
    LET last == CHOOSE d \in 0..9 : DigitSeq[d + 1] = s[Len(s)]
    IN  IF Len(s) = 1 THEN last
        ELSE 10 * parseInt(SubSeq(s, 1, Len(s) - 1)) + last

\* an entry of memoryRateLimitStore
RateLimitEntry(count, expiresAt) == [count |-> count, expiresAt |-> expiresAt]

\* a value of the key-value namespace, kept until expiresAt
KvEntry(value, expiresAt) == [value |-> value, expiresAt |-> expiresAt]

\* a request at a rate limiter: where the middleware stands (pc), the
\* request (with its Origin header, "" for none), the key and the count the
\* middleware holds, and the response with the headers set on the Context
\* ("next": handed on by next(); failed: the key-value store threw)
IdleGate ==
    [pc |-> "idle", route |-> "none", method |-> "", identifier |-> "",
     key |-> <<"ratelimit", "", 0>>, count |-> 0, status |-> 0, by |-> "none",
     failed |-> FALSE, origin |-> "", headers |-> {}]

NewGate(route, method, identifier) ==
    [IdleGate EXCEPT !.pc = "limiter", !.route = route, !.method = method,
                     !.identifier = identifier]

\* return c.json({ error: 'Too many requests. Please slow down.' }, 429)
TooManyRequests(g) == [g EXCEPT !.pc = "idle", !.status = 429, !.by = "limiter"]

\* the start of the middleware without the OPTIONS bypass
enterGate_NoOptionsBypass(options, g, kv, t) ==
    [g EXCEPT !.key = getRateLimitKey(g.identifier, options.windowMs, t),
              !.pc = IF kv THEN "get" ELSE "memory"]

\* the start of the middleware (lines 48-54): the OPTIONS bypass, and the key
\* from the clock reading t
enterGate(options, g, kv, t) ==
    IF g.method = "OPTIONS" THEN [g EXCEPT !.pc = "next"]
    ELSE [g EXCEPT !.key = getRateLimitKey(g.identifier, options.windowMs, t),
                   !.pc = IF kv THEN "get" ELSE "memory"]

\* memoryLimit whose sweep removes every entry but the request's own
memoryLimit_SweepsOpen(options, g, store, t) ==
    LET fresh == ~MapHas(store, g.key) \/ store[g.key].expiresAt <= t
        rejected == ~fresh /\ store[g.key].count >= options.limit
        updated == IF fresh
                   THEN MapSet(store, g.key, RateLimitEntry(1, t + options.windowMs))
                   ELSE MapSet(store, g.key,
                               RateLimitEntry(store[g.key].count + 1, store[g.key].expiresAt))
        swept == IF Cardinality(DOMAIN updated) > HIGH_WATER_MARK
                 THEN MapDelete(updated, (DOMAIN updated) \ {g.key})
                 ELSE updated
    IN  IF rejected THEN [gate |-> TooManyRequests(g), store |-> store]
        ELSE [gate |-> [g EXCEPT !.pc = "next"], store |-> swept]

\* the in-memory branch (lines 75-93) at clock reading t: the request's
\* outcome and the store it leaves
memoryLimit(options, g, store, t) ==
    LET fresh == ~MapHas(store, g.key) \/ store[g.key].expiresAt <= t
        rejected == ~fresh /\ store[g.key].count >= options.limit
        updated == IF fresh
                   THEN MapSet(store, g.key, RateLimitEntry(1, t + options.windowMs))
                   ELSE MapSet(store, g.key,
                               RateLimitEntry(store[g.key].count + 1, store[g.key].expiresAt))
        expired == {k \in DOMAIN updated : updated[k].expiresAt <= t}
        swept == IF Cardinality(DOMAIN updated) > HIGH_WATER_MARK
                 THEN MapDelete(updated, expired)
                 ELSE updated
    IN  IF rejected THEN [gate |-> TooManyRequests(g), store |-> store]
        ELSE [gate |-> [g EXCEPT !.pc = "next"], store |-> swept]

\* await kv.get(key) at time t: the stored string, or <<>> for null
kvGet(data, key, t) ==
    IF MapHas(data, key) /\ data[key].expiresAt > t THEN data[key].value ELSE <<>>

\* lines 60-64: the count read, and the 429 when it is at the limit
afterGet(options, g, countStr) ==
    LET count == IF countStr # <<>> THEN parseInt(countStr) ELSE 0
    IN  IF count >= options.limit THEN TooManyRequests(g)
        ELSE [g EXCEPT !.pc = "put", !.count = count]

\* Math.ceil(options.windowMs / 1000)
expirationTtl(options) == (options.windowMs + 999) \div 1000

\* await kv.put(key, value, { expirationTtl }) at time t
kvPut(data, key, value, ttl, t) == MapSet(data, key, KvEntry(value, t + 1000 * ttl))

\* failOpen that answers 429 when the key-value store throws
failOpen_Rejects(g) == [TooManyRequests(g) EXCEPT !.failed = TRUE]

\* the catch of the key-value branch: fail open
failOpen(g) == [g EXCEPT !.pc = "next", !.failed = TRUE]

\* one more request counted and let through by the limiter in the window of
\* the key; opened tells that the request opened the window
Admit(log, options, key, opened) ==
    IF MapHas(log, <<options, key>>) /\ ~opened
    THEN [log EXCEPT ![<<options, key>>] = @ + 1]
    ELSE MapSet(log, <<options, key>>, 1)

\* the requests in flight at the limiters
Procs == 1..MaxInFlight

\* a request passes validateConfigMiddleware and enters its route's limiter.
\* getRateLimitKey reads the clock (t1); the in-memory branch, which runs to
\* its end without an await, reads it again (t2), in the same millisecond
\* or the next
Arrive(P, requests, identifiers, T) ==
    \E p \in P, request \in requests, identifier \in identifiers, t1 \in T, t2 \in T :
        LET req == NewGate(request[1], request[2], identifier)
            options == RouteLimiter(request[1])
            entered == enterGate(options, req, RATE_LIMIT_KV, t1)
            ran == memoryLimit(options, entered, memoryRateLimitStore, t2)
            opened == \/ ~MapHas(memoryRateLimitStore, entered.key)
                      \/ memoryRateLimitStore[entered.key].expiresAt <= t2
        IN  /\ gate[p].pc = "idle"
            /\ now <= t1 /\ t1 <= t2 /\ t2 <= t1 + 1
            /\ configValidated' = validateConfigState[1]
            /\ configValidationError' = validateConfigState[2]
            /\ IF ~validateConfig
               THEN /\ t1 = now /\ t2 = now
                    /\ gate' = [gate EXCEPT ![p] = [req EXCEPT !.pc = "idle", !.status = 500,
                                                               !.by = "config"]]
                    /\ UNCHANGED <<now, memoryRateLimitStore, admitted>>
               ELSE IF entered.pc = "memory"
               THEN /\ gate' = [gate EXCEPT ![p] = ran.gate]
                    /\ memoryRateLimitStore' = ran.store
                    /\ admitted' = IF ran.gate.pc = "next"
                                   THEN Admit(admitted, options, entered.key, opened)
                                   ELSE admitted
                    /\ now' = t2
               ELSE /\ t2 = t1
                    /\ entered.pc = "next" => t1 = now
                    /\ gate' = [gate EXCEPT ![p] = entered]
                    /\ now' = t1
                    /\ UNCHANGED <<memoryRateLimitStore, admitted>>
            /\ UNCHANGED <<envVars, dashboard, RATE_LIMIT_KV, kvData, authVars, ctx, ctx2>>

\* the origin the application is served from: new URL(c.req.url).origin
ServingOrigin == "https://repos.example"

\* addRequestId: c.header('X-Request-ID', requestId).  The value, a random
\* UUID, is not modelled
addRequestId(g) == [g EXCEPT !.headers = @ \cup {<<"X-Request-ID", "uuid">>}]

\* the headers enforceSameOriginCors sets for a request with an Origin header
CorsHeaders(requestOrigin) ==
    {<<"Access-Control-Allow-Origin", requestOrigin>>,
     <<"Access-Control-Allow-Credentials", "true">>,
     <<"Vary", "Origin">>,
     <<"Access-Control-Allow-Headers", "Content-Type, Authorization">>,
     <<"Access-Control-Allow-Methods", "GET,POST,OPTIONS">>}

\* enforceSameOriginCors that lets a request of another origin pass
enforceSameOriginCors_AllowsAll(g) ==
    LET allowed == IF g.origin # ""
                   THEN [g EXCEPT !.headers = @ \cup CorsHeaders(g.origin)]
                   ELSE g
    IN  IF g.method = "OPTIONS"
        THEN [allowed EXCEPT !.pc = "idle", !.status = 204, !.by = "cors"]
        ELSE allowed

\* enforceSameOriginCors: the request answered 403 or 204 (pc "idle"), or
\* handed on by next()
enforceSameOriginCors(g) ==
    IF g.origin # "" /\ g.origin # ServingOrigin
    THEN [g EXCEPT !.pc = "idle", !.status = 403, !.by = "cors"]
    ELSE LET allowed == IF g.origin # ""
                        THEN [g EXCEPT !.headers = @ \cup CorsHeaders(ServingOrigin)]
                        ELSE g
         IN  IF g.method = "OPTIONS"
             THEN [allowed EXCEPT !.pc = "idle", !.status = 204, !.by = "cors"]
             ELSE allowed

\* the headers applySecurityHeaders sets after next() has returned
SecurityHeaders ==
    {"Content-Security-Policy", "X-Frame-Options", "X-Content-Type-Options",
     "X-XSS-Protection", "Referrer-Policy", "Permissions-Policy",
     "Strict-Transport-Security"}

\* the names of the headers of a response: those set on the Context before
\* the layer `by` answered, and those of applySecurityHeaders when the answer
\* came from behind it
ResponseHeaders(headers, by) ==
    {h[1] : h \in headers} \cup
        (IF by \in {"none", "config", "cors"} THEN {} ELSE SecurityHeaders)

\* a request goes through the middleware of index.ts in the order of lines
\* 107-110, validateConfigMiddleware, addRequestId, enforceSameOriginCors,
\* and, when these hand it on, enters its route's limiter as in Arrive
Enter(P, requests, origins, identifiers, T) ==
    \E p \in P, request \in requests, origin \in origins, identifier \in identifiers,
       t1 \in T, t2 \in T :
        LET req == [NewGate(request[1], request[2], identifier) EXCEPT !.origin = origin]
            checked == enforceSameOriginCors(addRequestId(req))
            options == RouteLimiter(request[1])
            entered == enterGate(options, checked, RATE_LIMIT_KV, t1)
            ran == memoryLimit(options, entered, memoryRateLimitStore, t2)
            opened == \/ ~MapHas(memoryRateLimitStore, entered.key)
                      \/ memoryRateLimitStore[entered.key].expiresAt <= t2
        IN  /\ gate[p].pc = "idle"
            /\ now <= t1 /\ t1 <= t2 /\ t2 <= t1 + 1
            /\ configValidated' = validateConfigState[1]
            /\ configValidationError' = validateConfigState[2]
            /\ IF ~validateConfig
               THEN /\ t1 = now /\ t2 = now
                    /\ gate' = [gate EXCEPT ![p] = [req EXCEPT !.pc = "idle", !.status = 500,
                                                               !.by = "config"]]
                    /\ UNCHANGED <<now, memoryRateLimitStore, admitted>>
               ELSE IF checked.pc = "idle"
               THEN /\ t1 = now /\ t2 = now
                    /\ gate' = [gate EXCEPT ![p] = checked]
                    /\ UNCHANGED <<now, memoryRateLimitStore, admitted>>
               ELSE IF entered.pc = "memory"
               THEN /\ gate' = [gate EXCEPT ![p] = ran.gate]
                    /\ memoryRateLimitStore' = ran.store
                    /\ admitted' = IF ran.gate.pc = "next"
                                   THEN Admit(admitted, options, entered.key, opened)
                                   ELSE admitted
                    /\ now' = t2
               ELSE /\ t2 = t1
                    /\ gate' = [gate EXCEPT ![p] = entered]
                    /\ now' = t1
                    /\ UNCHANGED <<memoryRateLimitStore, admitted>>
            /\ UNCHANGED <<envVars, dashboard, RATE_LIMIT_KV, kvData, authVars, ctx, ctx2>>

\* await kv.get(key) returns, or throws
KvGet(P) ==
    \E p \in P, ok \in BOOLEAN :
        /\ gate[p].pc = "get"
        /\ gate' = [gate EXCEPT ![p] =
                       IF ok THEN afterGet(RouteLimiter(gate[p].route), gate[p],
                                           kvGet(kvData, gate[p].key, now))
                       ELSE failOpen(gate[p])]
        /\ UNCHANGED <<envVars, dashboard, RATE_LIMIT_KV, memoryRateLimitStore, kvData, admitted,
                       configValidated, configValidationError, now, authVars, ctx, ctx2>>

\* await kv.put(key, String(count + 1), { expirationTtl }) returns, or throws
KvPut(P) ==
    \E p \in P, ok \in BOOLEAN :
        LET options == RouteLimiter(gate[p].route)
        IN  /\ gate[p].pc = "put"
            /\ IF ok
               THEN /\ kvData' = kvPut(kvData, gate[p].key, String(gate[p].count + 1),
                                       expirationTtl(options), now)
                    /\ admitted' = Admit(admitted, options, gate[p].key, FALSE)
                    /\ gate' = [gate EXCEPT ![p] = [@ EXCEPT !.pc = "next"]]
               ELSE /\ gate' = [gate EXCEPT ![p] = failOpen(@)]
                    /\ UNCHANGED <<kvData, admitted>>
            /\ UNCHANGED <<envVars, dashboard, RATE_LIMIT_KV, memoryRateLimitStore,
                           configValidated, configValidationError, now, authVars, ctx, ctx2>>

\* the response of the layers behind the limiter
Answered(g, status, by) == [g EXCEPT !.pc = "idle", !.status = status, !.by = by]

\* next() of a limiter of the /auth routes: the route's handler, or 404 when
\* the method is not the handler's
ProceedAuth(P, T) ==
    \E p \in P :
        /\ gate[p].pc = "next"
        /\ gate[p].route \in AuthRoutes
        /\ IF gate[p].method # RouteMethod(gate[p].route)
           THEN /\ gate' = [gate EXCEPT ![p] = Answered(@, 404, "notFound")]
                /\ UNCHANGED <<configValidated, configValidationError, now, authVars>>
           ELSE /\ CASE gate[p].route = "login" -> AnswerLogin
                     [] gate[p].route = "callback" -> AnswerCallback(T)
                     [] OTHER -> AnswerLogout
                /\ gate' = [gate EXCEPT ![p] = Answered(@, auth'.status, auth'.by)]
        /\ UNCHANGED <<envVars, dashboard, RATE_LIMIT_KV, memoryRateLimitStore, kvData, admitted,
                       ctx, ctx2>>

\* ProceedApi that starts verifyJWT while the limiter still waits for the
\* key-value store
ProceedApi_BeforeGate(P, creds, bodies) ==
    \E p \in P :
        /\ gate[p].pc \in {"get", "next"}
        /\ gate[p].route \notin AuthRoutes
        /\ ctx.pc = "idle"
        /\ \E cred \in creds, body \in bodies :
               ctx' = [NewCtx(gate[p].route, cred, body) EXCEPT !.headers = gate[p].headers]
        /\ gate' = [gate EXCEPT ![p] = Answered(@, 0, "next")]
        /\ UNCHANGED <<envVars, dashboard, RATE_LIMIT_KV, memoryRateLimitStore, kvData, admitted,
                       configValidated, configValidationError, now, authVars, ctx2>>

\* next() of the limiter of /delete and /archive: verifyJWT and the handler
ProceedApi(P, creds, bodies) ==
    \E p \in P :
        /\ gate[p].pc = "next"
        /\ gate[p].route \notin AuthRoutes
        /\ ctx.pc = "idle"
        /\ IF gate[p].method # RouteMethod(gate[p].route)
           THEN /\ gate' = [gate EXCEPT ![p] = Answered(@, 404, "notFound")]
                /\ UNCHANGED ctx
           ELSE /\ \E cred \in creds, body \in bodies :
                       ctx' = [NewCtx(gate[p].route, cred, body)
                                  EXCEPT !.headers = gate[p].headers]
                /\ gate' = [gate EXCEPT ![p] = Answered(@, 0, "next")]
        /\ UNCHANGED <<envVars, dashboard, RATE_LIMIT_KV, memoryRateLimitStore, kvData, admitted,
                       configValidated, configValidationError, now, authVars, ctx2>>

-----------------------------------------------------------------------------
(* Two runs of one request, side by side *)

\* the answers of octokit.repos.get in the two runs: the same, or the
\* repository is missing in the first run and, in the second, exists and
\* belongs to an account other than the authenticated one
PairedOutcomes(user) ==
    {<<o, o>> : o \in GetOutcomes}
        \cup {<<GetOutcome(FALSE, ""), GetOutcome(TRUE, l)>> : l \in Logins \ {user}}

\* the same request arrives in both runs
PairReceive(routes, creds, bodies) ==
    /\ ctx.pc = "idle" /\ ctx2.pc = "idle"
    /\ \E route \in routes, cred \in creds, body \in bodies :
           /\ ctx' = validateConfigMiddleware(NewCtx(route, cred, body))
           /\ ctx2' = validateConfigMiddleware(NewCtx(route, cred, body))
    /\ configValidated' = validateConfigState[1]
    /\ configValidationError' = validateConfigState[2]
    /\ UNCHANGED <<envVars, dashboard, gateVars, now, authVars>>

PairVerify(T) ==
    /\ ctx.pc = "verify" /\ ctx2.pc = "verify"
    /\ \E t \in T :
           /\ t >= now
           /\ now' = t
           /\ ctx' = verifyJWT(ctx, t)
           /\ ctx2' = verifyJWT(ctx2, t)
    /\ UNCHANGED <<envVars, dashboard, gateVars, configValidated, configValidationError, authVars>>

PairHandle ==
    /\ ctx.pc = "handler" /\ ctx2.pc = "handler"
    /\ ctx' = StartBatch(ctx, ctx.route = "delete")
    /\ ctx2' = StartBatch(ctx2, ctx2.route = "delete")
    /\ UNCHANGED <<envVars, dashboard, gateVars, configValidated, configValidationError, now, authVars>>

PairFetch ==
    /\ ctx.pc = "fetch" /\ ctx2.pc = "fetch"
    /\ \E oo \in PairedOutcomes(ctx.githubUser) :
           /\ ctx' = FetchRepo(ctx, oo[1])
           /\ ctx2' = FetchRepo(ctx2, oo[2])
    /\ UNCHANGED <<envVars, dashboard, gateVars, configValidated, configValidationError, now, authVars>>

PairAct ==
    /\ ctx.pc = "act" /\ ctx2.pc = "act"
    /\ \E ok \in BOOLEAN :
           /\ ctx' = ActOnRepo(ctx, ok)
           /\ ctx2' = ActOnRepo(ctx2, ok)
    /\ UNCHANGED <<envVars, dashboard, gateVars, configValidated, configValidationError, now, authVars>>

PairFinish ==
    /\ ctx.pc = "done" /\ ctx2.pc = "done"
    /\ ctx' = IdleCtx
    /\ ctx2' = IdleCtx
    /\ UNCHANGED <<envVars, dashboard, gateVars, configValidated, configValidationError, now, authVars>>

-----------------------------------------------------------------------------
(* Specifications *)

SecretLengths == {0, MIN_SECRET_LENGTH - 1, MIN_SECRET_LENGTH}
Environments == {"production", "development", ""}

NoAuth == AuthRes("none", "", 0, 0, 0, "", NoUrl, <<>>, FALSE, "none")
EmptyJar == [oauth_state |-> 0, auth_token |-> NoJwt]

\* the repositories of the account, by full_name, and the name and the
\* private flag of each as /api/repos returns them (no descriptions)
ListedRepos == {"alice/Api", "alice/blog"}

Repository(fullName) ==
    IF fullName = "alice/Api" THEN [name |-> <<"A", "p", "i">>, private |-> FALSE]
    ELSE [name |-> <<"b", "l", "o", "g">>, private |-> TRUE]

\* the letters, in the order of the alphabet
Alphabet == <<"a","b","c","d","e","f","g","h","i","j","k","l","m",
              "n","o","p","q","r","s","t","u","v","w","x","y","z">>
Capitals == <<"A","B","C","D","E","F","G","H","I","J","K","L","M",
              "N","O","P","Q","R","S","T","U","V","W","X","Y","Z">>

\* String.prototype.toLowerCase
toLowerCase(s) ==
    [i \in 1..Len(s) |->
        IF \E k \in 1..26 : Capitals[k] = s[i]
        THEN Alphabet[CHOOSE k \in 1..26 : Capitals[k] = s[i]]
        ELSE s[i]]

\* String.prototype.includes
includes(s, t) == \E i \in 1..(Len(s) - Len(t) + 1) : SubSeq(s, i, i + Len(t) - 1) = t

\* filteredRepos as the filter effect leaves it (lines 46-66): the listed
\* repositories that match the search term and the visibility filter
filteredRepos(d) ==
    {r \in d.repos :
        /\ d.searchTerm # <<>> =>
               includes(toLowerCase(Repository(r).name), toLowerCase(d.searchTerm))
        /\ d.filterPrivate # "all" =>
               (IF d.filterPrivate = "private" THEN Repository(r).private
                ELSE ~Repository(r).private)}

\* Dashboard's state once fetchRepos has answered (useState, lines 30-40),
\* with confirmText of the ConfirmModal it renders (set anew each time the
\* modal is mounted) and the requests sent
LoadedDashboard ==
    [repos |-> ListedRepos, searchTerm |-> <<>>, filterPrivate |-> "all", error |-> FALSE,
     selected |-> {}, isDryRun |-> FALSE, showConfirmModal |-> FALSE,
     showProgressModal |-> FALSE, confirmText |-> "", pending |-> FALSE, sent |-> <<>>]

\* the action prop Dashboard gives to ConfirmModal: its JSX passes count,
\* isDryRun, onConfirm and onCancel only
DashboardAction == "undefined"

\* const confirmWord = action === 'delete' ? 'DELETE' : 'ARCHIVE'
confirmWord(action) == IF action = "delete" THEN "DELETE" ELSE "ARCHIVE"

\* const showConfirmInput = action === 'delete' ? !isDryRun : true
showConfirmInput(action, isDryRun) == IF action = "delete" THEN ~isDryRun ELSE TRUE

\* const isValid = showConfirmInput ? confirmText === confirmWord : true
isValid(action, isDryRun, confirmText) ==
    IF showConfirmInput(action, isDryRun) THEN confirmText = confirmWord(action) ELSE TRUE

\* no request in flight, a user agent without cookies, an empty key-value
\* namespace
Quiet ==
    /\ dashboard = LoadedDashboard
    /\ configValidated = FALSE
    /\ configValidationError = FALSE
    /\ uuids = 0
    /\ jar = EmptyJar
    /\ exchangeCalls = 0
    /\ auth = NoAuth
    /\ ctx = IdleCtx
    /\ ctx2 = IdleCtx
    /\ spentStates = {}
    /\ kvData = EmptyMap
    /\ gate = [p \in Procs |-> IdleGate]
    /\ admitted = EmptyMap

\* the module-level state of a worker that has served no request, and a
\* user agent without cookies
Fresh ==
    /\ Quiet
    /\ now = 0
    /\ memoryRateLimitStore = EmptyMap

\* the store after one request of the client in each of the first n minutes,
\* each at the start of its minute: n entries, none of them swept so far
StaleStore(identifier, n) ==
    [k \in {getRateLimitKey(identifier, authRateLimiter.windowMs,
                            w * authRateLimiter.windowMs) : w \in 0..(n - 1)}
        |-> RateLimitEntry(1, (k[3] + 1) * authRateLimiter.windowMs)]

\* a deployment without a key-value namespace, under any secret and
\* environment flag
Init ==
    /\ JWT_SECRET \in SecretLengths
    /\ ENVIRONMENT \in Environments
    /\ RATE_LIMIT_KV = FALSE
    /\ Fresh

\* a production deployment with or without the key-value namespace, under a
\* secret just long enough or one character short
InitGate ==
    /\ JWT_SECRET \in {MIN_SECRET_LENGTH - 1, MIN_SECRET_LENGTH}
    /\ ENVIRONMENT = "production"
    /\ RATE_LIMIT_KV \in BOOLEAN
    /\ Fresh

\* a production deployment without the key-value namespace, under a missing,
\* a weak and a strong secret
InitConfig ==
    /\ JWT_SECRET \in SecretLengths
    /\ ENVIRONMENT = "production"
    /\ RATE_LIMIT_KV = FALSE
    /\ Fresh

\* clock readings of the batch specification: at signing, and past expiry
BatchInstants == {0, 1000 * EXPIRATION_SECONDS}

\* the credentials of the batch requests: every token by cookie, no token,
\* and a session as bearer or beside another scheme
BatchCreds ==
    {Cred("none", NoJwt, j) : j \in PresentedJwts({0}) \cup {NoJwt}}
        \cup {Cred("Bearer", SessionJwt("alice", 0), NoJwt),
              Cred("Basic", NoJwt, SessionJwt("bob", 0)),
              Cred("Bearer", [SessionJwt("bob", 0) EXCEPT !.sig = "invalid"],
                   SessionJwt("alice", 0)),
              Cred("Bearer", NoJwt, SessionJwt("alice", 0))}

\* the batch engine behind its session gate
Next ==
    \/ Receive({"delete", "archive"}, BatchCreds, Bodies)
    \/ Verify(BatchInstants)
    \/ Handle
    \/ Fetch
    \/ Act
    \/ Finish

Spec == Init /\ [][Next]_vars

\* clock readings of the session specification: around a signing at 0 or
\* 400 ms and the expiry ten minutes later
SessionInstants ==
    {0, 400, 1000 * EXPIRATION_SECONDS - 1, 1000 * EXPIRATION_SECONDS,
     1000 * EXPIRATION_SECONDS + 400, 1000 * EXPIRATION_SECONDS + 1000}

\* clock readings at which the session specification signs tokens
SigningInstants == {0, 400}

\* what a user agent or another client presents to GET /api/session: the
\* cookies of the user agent, or a token of its own
SessionCreds ==
    {Cred("Bearer", j, NoJwt) : j \in PresentedJwts(SigningInstants)}
        \cup {Cred("none", NoJwt, jar.auth_token)}

\* the OAuth flow and the session gate, driven by a user agent that sends
\* its /auth requests one at a time, between its /api requests
NextSession ==
    \/ ctx.pc = "idle" /\ Login
    \/ ctx.pc = "idle" /\ Callback(SigningInstants)
    \/ ctx.pc = "idle" /\ Logout
    \/ Receive({"session"}, SessionCreds, {NoBody})
    \/ Verify(SessionInstants)
    \/ Handle
    \/ Finish

SpecSession == Init /\ [][NextSession]_vars


\* the sessions of the paired runs
PairCreds == {Cred("none", NoJwt, SessionJwt(u, 0)) : u \in Logins}

\* one batch request run twice, against upstreams that differ only in
\* whether a refused repository is missing or another account's
NextPair ==
    \/ PairReceive({"delete", "archive"}, PairCreds, Bodies)
    \/ PairVerify({0})
    \/ PairHandle
    \/ PairFetch
    \/ PairAct
    \/ PairFinish

SpecPair == Init /\ [][NextPair]_vars

\* the batch engine with each upstream call as two steps: issued, answered
NextSequential ==
    \/ Receive({"delete", "archive"}, PairCreds, Bodies)
    \/ Verify({0})
    \/ Handle
    \/ IssueFetch
    \/ AwaitFetch
    \/ IssueAct
    \/ AwaitAct
    \/ Finish

SpecSequential == Init /\ [][NextSequential]_vars

\* bodies with up to MaxBatch well-formed identifiers, with and without dryRun
ListBodies ==
    {Body("ok", JArray(q), d) : q \in SeqsUpTo({JStr(IdAX), JStr(IdBY)}, MaxBatch),
                                d \in {JUndefined, JBool(TRUE)}}

\* batch requests of alice, each upstream call as two steps
NextCompletion ==
    \/ Receive({"delete", "archive"}, {Cred("none", NoJwt, SessionJwt("alice", 0))},
               ListBodies)
    \/ Verify({0})
    \/ Handle
    \/ IssueFetch
    \/ AwaitFetch
    \/ IssueAct
    \/ AwaitAct
    \/ Finish

\* the handler goes on whenever it can and every upstream call issued is
\* answered in the end, by a result or by an error
SpecCompletion ==
    /\ InitConfig
    /\ [][NextCompletion]_vars
    /\ WF_vars(Handle)
    /\ WF_vars(IssueFetch)
    /\ WF_vars(AwaitFetch)
    /\ WF_vars(IssueAct)
    /\ WF_vars(AwaitAct)

\* what getClientIdentifier returns for the requests of one client
ClientIp == "203.0.113.7"

\* clock readings around the end of the first minute
GateInstants == {0, 59999, 60000}

\* requests of one client, one at a time, to a route behind the auth
\* limiter and to one behind the batch limiter
NextLimiter ==
    \/ Arrive({1}, {<<"logout", "GET">>, <<"delete", "POST">>, <<"logout", "OPTIONS">>},
              {ClientIp}, GateInstants)
    \/ KvGet({1})
    \/ KvPut({1})
    \/ ProceedAuth({1}, GateInstants)
    \/ ProceedApi({1}, {NoCred}, {NoBody})
    \/ Verify({now})
    \/ Finish

SpecLimiter == InitGate /\ [][NextLimiter]_vars

\* the clock reading of requests that arrive together
RaceInstants == {0}

\* clock readings at the end of the first minute, at the start of the second
\* and at the expiry of a window opened at the end of the first
WindowInstants ==
    {authRateLimiter.windowMs - 1, authRateLimiter.windowMs, 2 * authRateLimiter.windowMs - 1}

\* requests of one client to /auth/logout over two minutes
NextWindow ==
    \/ Arrive({1, 2}, {<<"logout", "GET">>}, {ClientIp}, WindowInstants)
    \/ ProceedAuth({1, 2}, WindowInstants)

SpecWindow == InitConfig /\ [][NextWindow]_vars

\* the start of the minute after the stale entries' minutes
SweepStart == (HIGH_WATER_MARK - 1) * authRateLimiter.windowMs

\* clock readings in that minute and at the start of the next
SweepInstants == {SweepStart, SweepStart + authRateLimiter.windowMs}

SweepClients == {ClientIp, "198.51.100.4"}

\* a worker without the key-value namespace whose store holds one entry
\* short of the high-water mark, all of them expired
InitSweep ==
    /\ JWT_SECRET = MIN_SECRET_LENGTH
    /\ ENVIRONMENT = "production"
    /\ RATE_LIMIT_KV = FALSE
    /\ Quiet
    /\ now = SweepStart
    /\ memoryRateLimitStore = StaleStore(ClientIp, HIGH_WATER_MARK - 1)

\* requests of two clients to /auth/logout, one at a time
NextSweep ==
    \/ Arrive({1}, {<<"logout", "GET">>}, SweepClients, SweepInstants)
    \/ ProceedAuth({1}, SweepInstants)

SpecSweep == InitSweep /\ [][NextSweep]_vars

\* concurrent requests of one client to /auth/logout
NextRace ==
    \/ Arrive(Procs, {<<"logout", "GET">>}, {ClientIp}, RaceInstants)
    \/ KvGet(Procs)
    \/ KvPut(Procs)
    \/ ProceedAuth(Procs, RaceInstants)

SpecRace == InitGate /\ [][NextRace]_vars

\* a user agent that logs in, comes back from the provider and logs out,
\* one request at a time, through the auth limiter
NextLogout ==
    \/ Arrive({1}, {<<route, "GET">> : route \in AuthRoutes}, {ClientIp}, {0})
    \/ KvGet({1})
    \/ KvPut({1})
    \/ ProceedAuth({1}, {0})

SpecLogout == InitGate /\ [][NextLogout]_vars

\* one identifier, owned by alice
OneRepoBody == Body("ok", JArray(<<JStr(IdAX)>>), JUndefined)

\* batch requests of one client in one minute, with and without a session,
\* through the batch limiter, in memory or in the key-value namespace, and on
\* to verifyJWT and the handler
NextGated ==
    \/ Arrive({1}, {<<"delete", "POST">>, <<"archive", "POST">>}, {ClientIp}, {0})
    \/ KvGet({1})
    \/ KvPut({1})
    \/ ProceedApi({1}, {NoCred, Cred("none", NoJwt, SessionJwt("alice", 0))},
                  {NoBody, OneRepoBody})
    \/ Verify({0})
    \/ Handle
    \/ Fetch
    \/ Act
    \/ Finish

SpecGated == InitGate /\ [][NextGated]_vars

\* a client that signs in and deletes, one request at a time, through the
\* whole application: configuration check, limiter, session gate, handler
NextConfig ==
    \/ Arrive({1}, {<<"login", "GET">>, <<"callback", "GET">>, <<"delete", "POST">>},
              {ClientIp}, {0})
    \/ ProceedAuth({1}, {0})
    \/ ProceedApi({1}, {Cred("none", NoJwt, SessionJwt("alice", 0))}, {OneRepoBody})
    \/ Verify({0})
    \/ Handle
    \/ Fetch
    \/ Act
    \/ Finish

SpecConfig == InitConfig /\ [][NextConfig]_vars

\* an origin that is not the serving one
OtherOrigin == "https://other.example"

\* Origin headers of the requests: none, the serving origin, another origin
Origins == {"", ServingOrigin, OtherOrigin}

\* bodies answered 200, 400, 413 and 500 by the batch handlers
ChainBodies ==
    {OneRepoBody} \cup {Body(x, JNoRepos, JUndefined) : x \in {"toolarge", "empty", "null"}}

\* requests of one client, with and without an Origin header, through the
\* middleware chain of index.ts and on to the routes
NextChain ==
    \/ Enter({1}, {<<"login", "GET">>, <<"delete", "POST">>, <<"archive", "POST">>,
                   <<"delete", "OPTIONS">>},
             Origins, {ClientIp}, {0})
    \/ ProceedAuth({1}, {0})
    \/ ProceedApi({1}, {NoCred, Cred("none", NoJwt, SessionJwt("alice", 0))}, ChainBodies)
    \/ Verify({0})
    \/ Handle
    \/ Fetch
    \/ Act
    \/ Finish

SpecChain == InitConfig /\ [][NextChain]_vars

\* the requests the page may send in one run
MaxSent == 2

\* what the user may have in the search input
SearchTerms == {<<>>, <<"a", "p">>}

\* what the user may have in the confirmation input
Texts == {"", "DELETE", "delete", "DELETE ", "ARCHIVE"}

backend == <<JWT_SECRET, ENVIRONMENT, configValidated, configValidationError,
             now, uuids, jar, exchangeCalls, auth, ctx, ctx2, spentStates,
             RATE_LIMIT_KV, memoryRateLimitStore, kvData, gate, admitted>>

\* handleSelectRepo, of the checkbox of a row of the table
handleSelectRepo ==
    /\ ~dashboard.showConfirmModal
    /\ ~dashboard.error
    /\ \E fullName \in filteredRepos(dashboard) :
           dashboard' = [dashboard EXCEPT !.selected =
                            IF fullName \in dashboard.selected
                            THEN dashboard.selected \ {fullName}
                            ELSE dashboard.selected \cup {fullName}]
    /\ UNCHANGED backend

\* the dry-run checkbox of the action bar, shown while something is selected
\* and reachable while the modal's overlay is not over it
setIsDryRun ==
    /\ ~dashboard.showConfirmModal
    /\ ~dashboard.error
    /\ dashboard.selected # {}
    /\ \E checked \in BOOLEAN : dashboard' = [dashboard EXCEPT !.isDryRun = checked]
    /\ UNCHANGED backend

\* the action bar's button: setShowConfirmModal(true); ConfirmModal mounts
\* with an empty confirmText
OpenConfirmModal ==
    /\ ~dashboard.showConfirmModal
    /\ ~dashboard.error
    /\ dashboard.selected # {}
    /\ dashboard' = [dashboard EXCEPT !.showConfirmModal = TRUE, !.confirmText = ""]
    /\ UNCHANGED backend

\* the modal's input, rendered when showConfirmInput: setConfirmText
setConfirmText ==
    /\ dashboard.showConfirmModal
    /\ ~dashboard.error
    /\ showConfirmInput(DashboardAction, dashboard.isDryRun)
    /\ \E value \in Texts : dashboard' = [dashboard EXCEPT !.confirmText = value]
    /\ UNCHANGED backend

\* the modal's Cancel button
onCancel ==
    /\ dashboard.showConfirmModal
    /\ ~dashboard.error
    /\ dashboard' = [dashboard EXCEPT !.showConfirmModal = FALSE]
    /\ UNCHANGED backend

\* the modal's confirm button, disabled unless isValid: onConfirm closes the
\* modal and calls handleDelete, which opens the progress modal and sends
\* POST /api/delete with the selection and the dry-run flag.  Each request
\* sent is kept with the text that was in the input when the button was
\* pressed and with the rows the table showed.
onConfirm ==
    /\ dashboard.showConfirmModal
    /\ ~dashboard.error
    /\ isValid(DashboardAction, dashboard.isDryRun, dashboard.confirmText)
    /\ Len(dashboard.sent) < MaxSent
    /\ dashboard' = [dashboard EXCEPT
                        !.showConfirmModal = FALSE,
                        !.showProgressModal = TRUE,
                        !.pending = TRUE,
                        !.sent = Append(dashboard.sent,
                                        [route |-> "delete",
                                         repos |-> dashboard.selected,
                                         dryRun |-> dashboard.isDryRun,
                                         typed |-> dashboard.confirmText,
                                         shown |-> filteredRepos(dashboard)])]
    /\ UNCHANGED backend

\* handleDelete after its fetch: the answer to a request that was not a dry
\* run takes the deleted repositories from the list and empties the
\* selection; a fetch that fails or an answer that is not ok sets the error,
\* and the page shows the error and its Try Again button only
DeleteAnswered ==
    /\ dashboard.pending
    /\ LET request == dashboard.sent[Len(dashboard.sent)]
       IN  \/ dashboard' = [dashboard EXCEPT !.pending = FALSE, !.error = TRUE]
           \/ /\ request.dryRun
              /\ dashboard' = [dashboard EXCEPT !.pending = FALSE]
           \/ /\ ~request.dryRun
              /\ \E deleted \in SUBSET request.repos :
                     dashboard' = [dashboard EXCEPT !.pending = FALSE,
                                                    !.repos = @ \ deleted,
                                                    !.selected = {}]
    /\ UNCHANGED backend

\* the progress modal's onClose
CloseProgressModal ==
    /\ dashboard.showProgressModal
    /\ ~dashboard.error
    /\ dashboard' = [dashboard EXCEPT !.showProgressModal = FALSE]
    /\ UNCHANGED backend

\* handleSelectAll, of the checkbox in the head of the table
handleSelectAll ==
    /\ ~dashboard.showConfirmModal
    /\ ~dashboard.error
    /\ dashboard' = [dashboard EXCEPT !.selected =
                        IF Cardinality(dashboard.selected)
                               = Cardinality(filteredRepos(dashboard))
                        THEN {} ELSE filteredRepos(dashboard)]
    /\ UNCHANGED backend

\* the search input: setSearchTerm, then the filter effect
setSearchTerm ==
    /\ ~dashboard.showConfirmModal
    /\ ~dashboard.error
    /\ \E value \in SearchTerms : dashboard' = [dashboard EXCEPT !.searchTerm = value]
    /\ UNCHANGED backend

\* the visibility select: setFilterPrivate, then the filter effect
setFilterPrivate ==
    /\ ~dashboard.showConfirmModal
    /\ ~dashboard.error
    /\ \E value \in {"all", "public", "private"} :
           dashboard' = [dashboard EXCEPT !.filterPrivate = value]
    /\ UNCHANGED backend

\* Try Again on the error page: fetchRepos clears the error and, when
\* /api/repos answers, sets the list to what the account holds by then
fetchRepos ==
    /\ dashboard.error
    /\ ~dashboard.pending
    /\ \E data \in SUBSET ListedRepos :
           dashboard' = [dashboard EXCEPT !.error = FALSE, !.repos = data]
    /\ UNCHANGED backend

\* the page in the hands of its user
NextDashboard ==
    \/ handleSelectRepo
    \/ setIsDryRun
    \/ OpenConfirmModal
    \/ setConfirmText
    \/ onCancel
    \/ onConfirm
    \/ DeleteAnswered
    \/ CloseProgressModal

SpecDashboard == InitConfig /\ [][NextDashboard]_vars

\* the page with its table: selecting, searching, filtering, deleting and
\* loading the list again
NextSelection ==
    \/ handleSelectRepo
    \/ handleSelectAll
    \/ setSearchTerm
    \/ setFilterPrivate
    \/ OpenConfirmModal
    \/ setConfirmText
    \/ onConfirm
    \/ DeleteAnswered
    \/ fetchRepos

SpecSelection == InitConfig /\ [][NextSelection]_vars

\* sizes of the account's list around one, two and three pages
ListSizes ==
    {0, 1, PER_PAGE - 1, PER_PAGE, PER_PAGE + 1, 2 * PER_PAGE - 1, 2 * PER_PAGE,
     2 * PER_PAGE + 1}

\* GET /api/repos behind its session gate
NextLister ==
    \/ Receive({"repos"}, BatchCreds, {NoBody})
    \/ Verify(BatchInstants)
    \/ Handle
    \/ ListPage(ListSizes)
    \/ Finish

\* the handler goes on whenever it can and every upstream call is answered
\* in the end, by a page or by an error
SpecLister ==
    /\ Init
    /\ [][NextLister]_vars
    /\ WF_vars(Handle)
    /\ WF_vars(ListPage(ListSizes))

-----------------------------------------------------------------------------
(* Properties of the batch engine *)

\* the request in flight is a batch request
IsBatch(c) == c.route \in {"delete", "archive"}

\* the handler answered 200 with results and a summary
BatchDone(c) == IsBatch(c) /\ c.pc = "done" /\ c.by = "handler" /\ c.status = 200

Mutating(call) == call.op \in {"delete", "update"}

\* the call before calls[k] is the successful fetch of the same repository,
\* owned by the identity of the presented session token
GuardedByFetch(c, k) ==
    /\ k > 1
    /\ c.calls[k - 1].op = "get"
    /\ c.calls[k - 1].owner = c.calls[k].owner
    /\ c.calls[k - 1].repo = c.calls[k].repo
    /\ c.calls[k - 1].ok
    /\ c.calls[k - 1].login = extractTokenFromRequest(c.cred).githubUser

\* C1: a delete or archive call is issued only right after the fetch of the
\* same identifier succeeded, in the same request, with an owner login equal
\* to the identity of the session token; after a fetch that failed or
\* returned another owner no mutating call follows, only the next fetch.
Thm_C1 ==
    \A k \in 1..Len(ctx.calls) :
        /\ Mutating(ctx.calls[k]) =>
               /\ GuardedByFetch(ctx, k)
               /\ ctx.calls[k].op = (IF ctx.route = "delete" THEN "delete" ELSE "update")
        /\ (/\ ctx.calls[k].op = "get"
            /\ ~ctx.calls[k].ok \/ ctx.calls[k].login # ctx.githubUser
            /\ k < Len(ctx.calls)) => ~Mutating(ctx.calls[k + 1])

\* a finished batch in which one fetch was refused and another identifier
\* was mutated
Wit_C1 ==
    /\ BatchDone(ctx)
    /\ \E k \in 1..Len(ctx.calls) : Mutating(ctx.calls[k])
    /\ \E k \in 1..Len(ctx.calls) : ctx.calls[k].op = "get" /\ ctx.calls[k].ok
                                       /\ ctx.calls[k].login # ctx.githubUser

\* C2: the response to a validated batch has one result per submitted
\* identifier, in the submitted order (results[k] names the k-th identifier,
\* trimmed), whatever the outcomes of the upstream calls.
Thm_C2 ==
    BatchDone(ctx) =>
        /\ Len(ctx.res.results) = Len(ctx.body.repos.items)
        /\ \A k \in 1..Len(ctx.res.results) :
               ctx.res.results[k].repo = Trim(ctx.body.repos.items[k].s)

\* a finished batch that names one identifier twice, with different outcomes
Wit_C2 ==
    /\ BatchDone(ctx)
    /\ Len(ctx.res.results) = 2
    /\ ctx.body.repos.items[1] = ctx.body.repos.items[2]
    /\ ctx.res.results[1].success /\ ~ctx.res.results[2].success

\* C3: in every response with a summary, succeeded + failed = total = the
\* number of results, succeeded and failed counting the results by success.
Thm_C3 ==
    BatchDone(ctx) =>
        LET r == ctx.res.results
            m == ctx.res.summary
        IN  /\ m.succeeded + m.failed = m.total
            /\ m.total = Len(r)
            /\ m.succeeded = Cardinality({k \in 1..Len(r) : r[k].success})
            /\ m.failed = Cardinality({k \in 1..Len(r) : ~r[k].success})

\* a summary with a success and a refused identifier
Wit_C3 ==
    /\ BatchDone(ctx)
    /\ ctx.res.summary.succeeded = 1
    /\ ctx.res.summary.failed = 1
    /\ \E k \in 1..2 : ctx.res.results[k].error = "Repository not found or access denied"

\* the request is a delete whose body says dryRun: true
DryRunDelete(c) ==
    c.route = "delete" /\ c.body.read = "ok" /\ c.body.dryRun = JBool(TRUE)

\* C4: a delete with dryRun true never issues repos.delete, and reports
\* success for every identifier whose fetch returned the authenticated owner.
Thm_C4 ==
    DryRunDelete(ctx) =>
        /\ \A k \in 1..Len(ctx.calls) : ctx.calls[k].op = "get"
        /\ Len(ctx.results) = Len(ctx.calls)
        /\ \A k \in 1..Len(ctx.calls) :
               (ctx.calls[k].ok /\ ctx.calls[k].login = ctx.githubUser)
                   => (ctx.results[k].success /\ ctx.results[k].error = "")
        /\ BatchDone(ctx) => ctx.res.dryRun /\ ctx.res.results = ctx.results

\* a finished dry run of two identifiers, one of them owned
Wit_C4 ==
    /\ DryRunDelete(ctx)
    /\ BatchDone(ctx)
    /\ Len(ctx.calls) = 2
    /\ \E k \in 1..2 : ctx.results[k].success
    /\ \E k \in 1..2 : ~ctx.results[k].success

\* the identifiers the specification calls malformed: not owner/name over
\* the restricted characters, too long, or the path "../etc"
Malformed(entry) ==
    \/ entry.t # "string"
    \/ ~REPO_NAME_PATTERN(Trim(entry.s))
    \/ Len(Trim(entry.s)) > MAX_REPO_NAME_LENGTH
    \/ Trim(entry.s) = IdDotDot

\* the handler of a batch request has run on a body with a malformed entry
HandledMalformed(c) ==
    /\ IsBatch(c)
    /\ c.pc \in {"fetch", "act"} \/ (c.pc = "done" /\ c.by = "handler")
    /\ c.body.read = "ok"
    /\ c.body.repos.t = "array"
    /\ \E k \in 1..Len(c.body.repos.items) : Malformed(c.body.repos.items[k])

\* C5: a batch with a malformed identifier, "../etc" included, is answered
\* 400 and causes no upstream call.
Claim_C5 ==
    HandledMalformed(ctx) =>
        ctx.pc = "done" /\ ctx.status = 400 /\ ctx.calls = <<>>

\* C6: two runs of a batch by one identity that differ only in that an
\* identifier is a missing repository in one and another account's
\* repository in the other get the same response: the same results, entry
\* by entry, the same summary, the same status; the entry of that
\* identifier is success:false with the one not-found-or-denied error.
Thm_C6 ==
    /\ ctx.pc = ctx2.pc
    /\ ctx.results = ctx2.results
    /\ ctx.status = ctx2.status
    /\ ctx.res = ctx2.res
    /\ \A k \in 1..Len(ctx.results) :
           \A n \in 1..Len(ctx.calls) :
               (/\ ctx.calls[n].op = "get"
                /\ ctx.calls[n] # ctx2.calls[n]
                /\ Cardinality({m \in 1..n : ctx.calls[m].op = "get"}) = k)
                   => /\ ~ctx.results[k].success
                      /\ ctx.results[k].error = "Repository not found or access denied"

\* both runs have answered, and a fetch failed in the first that returned
\* another account's repository in the second
Wit_C6 ==
    /\ BatchDone(ctx) /\ BatchDone(ctx2)
    /\ \E n \in 1..Len(ctx.calls) : ~ctx.calls[n].ok /\ ctx2.calls[n].ok
    /\ \E k \in 1..Len(ctx.results) : ctx.results[k].success

-----------------------------------------------------------------------------
(* Properties of the OAuth callback and the session gate *)

\* a callback request whose state parameter or state cookie is absent, or
\* whose two values differ
StateRefused(r) ==
    /\ r.route = "callback"
    /\ r.state = 0 \/ r.storedState = 0 \/ r.state # r.storedState

\* C7: for a callback whose state parameter is absent, whose state cookie is
\* absent, or whose two values differ, the provider's token endpoint is not
\* called and no session cookie is set, and the callback handler answers 400.
Thm_C7 ==
    StateRefused(auth) =>
        /\ ~auth.exchanged
        /\ \A k \in 1..Len(auth.setCookies) : auth.setCookies[k].name # AUTH_COOKIE_NAME
        /\ auth.status # 302
        /\ auth.by = "handler" => auth.status = 400

\* a callback with a code and a state that differs from the stored one
Wit_C7 ==
    /\ StateRefused(auth)
    /\ auth.by = "handler"
    /\ auth.code # ""
    /\ auth.state # 0
    /\ auth.storedState # 0
    /\ auth.error = "Invalid OAuth state parameter"

\* the token verifyJWT extracts from the request in flight
Presented(c) == extractTokenFromRequest(c.cred)

\* the session cookie of the user agent, set by a successful callback, is
\* presented by the request in flight before its expiry
PresentsIssued(c) ==
    /\ c.pc \in {"handler", "done"}
    /\ c.by # "config"
    /\ jar.auth_token # NoJwt
    /\ c.cred = Cred("none", NoJwt, jar.auth_token)
    /\ Epoch(now) < jar.auth_token.exp

\* C8: a token issued by the callback carries identity, upstream token, id,
\* audience, issuer, issued-at and expiry, and verifyJWT accepts it before
\* its expiry, yielding that identity and that upstream token.
Claim_C8 ==
    /\ jar.auth_token # NoJwt =>
           /\ jar.auth_token.githubUser # ""
           /\ jar.auth_token.token # ""
           /\ jar.auth_token.jti # 0
           /\ jar.auth_token.aud = JWT_AUDIENCE
           /\ jar.auth_token.iss # ""
           /\ jar.auth_token.exp = jar.auth_token.iat + EXPIRATION_SECONDS
    /\ PresentsIssued(ctx) =>
           /\ ctx.by # "verifyJWT"
           /\ ctx.githubToken = jar.auth_token.token
           /\ ctx.githubUser = jar.auth_token.githubUser

\* a token valid in every respect but, possibly, its expiry
OtherwiseValid(j) ==
    /\ j.sig = "valid"
    /\ j.aud = JWT_AUDIENCE
    /\ j.token # ""
    /\ j.jti # 0
    /\ j.githubUser # ""

\* signed at j.t0 with the ten-minute expiry
TenMinuteToken(j) ==
    /\ j.iat = Epoch(j.t0)
    /\ j.exp = j.iat + EXPIRATION_SECONDS

\* this step is verifyJWT deciding about the request in flight
VerifyStep == ctx.pc = "verify" /\ ctx'.pc # "verify"

Accepted(c) == c.pc = "handler"
Rejected401(c) == c.pc = "done" /\ c.status = 401 /\ c.by = "verifyJWT"

\* C9 as stated: accepted at every time before t0 + 10 minutes, rejected
\* with 401 at every time after it.
Claim_C9 ==
    [][(VerifyStep /\ OtherwiseValid(Presented(ctx)) /\ TenMinuteToken(Presented(ctx))) =>
           /\ now' < Presented(ctx).t0 + 1000 * EXPIRATION_SECONDS => Accepted(ctx')
           /\ now' > Presented(ctx).t0 + 1000 * EXPIRATION_SECONDS => Rejected401(ctx')
      ]_vars

\* C9, amended: iat and exp are whole seconds, and so is the clock of the
\* verification.  The token is accepted exactly while the whole second of
\* the clock is below the whole second of t0 plus 600: at every time up to
\* t0 + 10 minutes - 1 second it is accepted, at every time from t0 + 10
\* minutes on it is rejected with 401, and no token is accepted in or after
\* the second its exp names.
Thm_C9 ==
    [][VerifyStep =>
           /\ (OtherwiseValid(Presented(ctx)) /\ TenMinuteToken(Presented(ctx))) =>
                  /\ Accepted(ctx') <=>
                         Epoch(now') < Epoch(Presented(ctx).t0) + EXPIRATION_SECONDS
                  /\ ~Accepted(ctx') => Rejected401(ctx')
                  /\ now' <= Presented(ctx).t0 + 1000 * (EXPIRATION_SECONDS - 1)
                         => Accepted(ctx')
                  /\ now' >= Presented(ctx).t0 + 1000 * EXPIRATION_SECONDS
                         => Rejected401(ctx')
           /\ (Accepted(ctx') /\ Presented(ctx).exp # 0) =>
                  Epoch(now') < Presented(ctx).exp
      ]_vars

\* a token signed at 400 ms is refused at 600 000 ms, 400 ms before ten
\* minutes have passed
Wit_C9 ==
    /\ Rejected401(ctx)
    /\ OtherwiseValid(Presented(ctx))
    /\ TenMinuteToken(Presented(ctx))
    /\ Presented(ctx).t0 = 400
    /\ now = 1000 * EXPIRATION_SECONDS

\* the token fails one of verifyJWT's checks at clock reading t
Unacceptable(j, t) ==
    \/ j.sig # "valid"
    \/ j.exp # 0 /\ j.exp <= Epoch(t)
    \/ j.aud # JWT_AUDIENCE
    \/ j.token = ""
    \/ j.jti = 0
    \/ j.githubUser = ""

\* C10: verifyJWT answers 401 and the route handler does not run (no
\* upstream call, no identity set) when the token has an invalid signature,
\* is expired, has another audience, or lacks upstream token, id or identity.
Thm_C10 ==
    [][(VerifyStep /\ Unacceptable(Presented(ctx), now')) =>
           /\ Rejected401(ctx')
           /\ ctx'.calls = <<>>
           /\ ctx'.results = <<>>
           /\ ctx'.githubToken = "" /\ ctx'.githubUser = ""
      ]_vars

\* a delete request refused for a token that lacks only the identity
Wit_C10 ==
    /\ Rejected401(ctx)
    /\ ctx.route = "delete"
    /\ Presented(ctx).githubUser = ""
    /\ Presented(ctx).sig = "valid"
    /\ Presented(ctx).token # ""
    /\ ctx.body.read = "ok"
    /\ ctx.body.repos.t = "array"

\* a response sets the session cookie
SessionCookieSet(r) ==
    \E k \in 1..Len(r.setCookies) :
        r.setCookies[k].name = AUTH_COOKIE_NAME /\ r.setCookies[k].maxAge > 0

\* C11: a callback response sets the session cookie only if the request had
\* a code, state parameter and state cookie were present and equal, and the
\* token endpoint returned an access token; every other outcome is a 400 or
\* a 500 that sets no session cookie, and no token is signed for it (no
\* token id is drawn and the user agent's session cookie stays as it was).
Thm_C11 ==
    [][auth'.route = "callback" =>
           /\ SessionCookieSet(auth') =>
                  /\ auth'.code # ""
                  /\ auth'.state # 0 /\ auth'.storedState # 0
                  /\ auth'.state = auth'.storedState
                  /\ auth'.exchanged
                  /\ auth'.status = 302
                  /\ \A k \in 1..Len(auth'.setCookies) :
                         auth'.setCookies[k].name = AUTH_COOKIE_NAME =>
                             /\ auth'.setCookies[k].token.sig = "valid"
                             /\ auth'.setCookies[k].token.token # ""
           /\ auth'.status # 302 =>
                  /\ auth'.status \in {400, 500}
                  /\ \A k \in 1..Len(auth'.setCookies) :
                         auth'.setCookies[k] = clearCookie(STATE_COOKIE_NAME)
                  /\ uuids' = uuids
                  /\ jar'.auth_token = jar.auth_token
                  /\ (auth'.by = "handler" /\ auth'.code = "") =>
                         auth'.status = 400 /\ ~auth'.exchanged
                  /\ (auth'.exchanged /\ auth'.status = 400) =>
                         auth'.error = "Failed to obtain access token"
      ]_vars

\* the token endpoint was called for a callback with matching state and
\* returned no access token, while the user agent holds an earlier session
Wit_C11 ==
    /\ auth.route = "callback"
    /\ auth.status = 400
    /\ auth.exchanged
    /\ auth.state = auth.storedState
    /\ jar.auth_token # NoJwt

AuthStep == auth' # auth \/ exchangeCalls' # exchangeCalls

\* C13: a callback that reaches the state check clears the state cookie in
\* its response, whether the state matched or not and whatever the token
\* exchange gave, so the user agent holds no state afterwards; the user
\* agent never again holds a state a callback has checked, and a later
\* callback with such a state parameter is refused with 400 before any
\* token exchange.
Thm_C13 ==
    [][/\ ReachedStateCheck(auth') =>
              /\ \E k \in 1..Len(auth'.setCookies) :
                     auth'.setCookies[k] = clearCookie(STATE_COOKIE_NAME)
              /\ jar'.oauth_state = 0
       /\ jar'.oauth_state \notin spentStates'
       /\ (AuthStep /\ ReachedStateCheck(auth') /\ auth'.state \in spentStates) =>
              /\ auth'.status = 400
              /\ auth'.error = "Invalid OAuth state parameter"
              /\ ~auth'.exchanged
      ]_vars

\* a second callback with the state of an earlier, successful one
Wit_C13 ==
    /\ auth.route = "callback"
    /\ auth.by = "handler"
    /\ auth.code # ""
    /\ auth.state \in spentStates
    /\ auth.status = 400
    /\ jar.auth_token # NoJwt

-----------------------------------------------------------------------------
(* Properties of the batch loop *)

\* the batch of the request has passed validation
Validated(c) == IsBatch(c) /\ c.repos # <<>>

\* the place in c.calls of the fetch of the k-th identifier
FetchOf(c, k) ==
    CHOOSE n \in 1..Len(c.calls) :
        /\ c.calls[n].op = "get"
        /\ Cardinality({m \in 1..n : c.calls[m].op = "get"}) = k

\* the fetch of the k-th identifier failed, or returned another owner, or
\* the delete/archive call that followed it failed
ItemFailed(c, k) ==
    LET n == FetchOf(c, k)
    IN  \/ ~c.calls[n].ok
        \/ c.calls[n].login # c.githubUser
        \/ n < Len(c.calls) /\ Mutating(c.calls[n + 1]) /\ ~c.calls[n + 1].ok

\* C19: once the batch has passed validation the handler is in its loop or
\* has answered 200 with one result per identifier; a failed fetch, a failed
\* ownership check and a failed delete/archive call each give that
\* identifier's success:false result with an error, the loop goes on with
\* the next identifier, and the handler never answers 500.
Thm_C19 ==
    Validated(ctx) =>
        /\ ctx.pc \in {"fetch", "act", "done"}
        /\ Cardinality({n \in 1..Len(ctx.calls) : ctx.calls[n].op = "get"}) >= Len(ctx.results)
        /\ \A k \in 1..Len(ctx.results) :
               /\ ctx.results[k].success = ~ItemFailed(ctx, k)
               /\ ~ctx.results[k].success => ctx.results[k].error # ""
        /\ ctx.pc # "done" =>
               /\ ctx.i = Len(ctx.results) + 1
               /\ ctx.i <= Len(ctx.repos)
        /\ ctx.pc = "done" =>
               /\ ctx.status = 200
               /\ ctx.by = "handler"
               /\ ctx.res.results = ctx.results
               /\ Len(ctx.results) = Len(ctx.repos)

\* the delete/archive call of the first identifier failed and the second
\* identifier was processed and succeeded
Wit_C19 ==
    /\ BatchDone(ctx)
    /\ Len(ctx.results) = 2
    /\ ctx.results[1].error = "GitHub API request failed"
    /\ ctx.results[2].success
    /\ Len(ctx.calls) = 4

\* C20: a batch request has at most one upstream call pending.  While a call
\* is pending the handler does nothing else; the call is for the identifier
\* of the current turn, and the results of all earlier identifiers are
\* recorded; a pending delete/archive call follows the answered, successful
\* fetch of the same identifier.
Thm_C20 ==
    /\ Len(ctx.inflight) <= 1
    /\ (ctx.pc = "await") = (ctx.inflight # <<>>)
    /\ ctx.inflight # <<>> =>
           LET call == ctx.inflight[1]
               fetched == Cardinality({n \in 1..Len(ctx.calls) : ctx.calls[n].op = "get"})
           IN  /\ IsBatch(ctx)
               /\ call.i = ctx.i
               /\ call.i = Len(ctx.results) + 1
               /\ call.owner = SplitOwner(ctx.repos[call.i])
               /\ call.repo = SplitRepo(ctx.repos[call.i])
               /\ call.op = "get" => fetched = call.i - 1
               /\ Mutating(call) =>
                      /\ fetched = call.i
                      /\ ~(ctx.route = "delete" /\ ctx.dryRun)
                      /\ ctx.calls[Len(ctx.calls)].op = "get"
                      /\ ctx.calls[Len(ctx.calls)].ok
                      /\ ctx.calls[Len(ctx.calls)].repo = call.repo

\* the delete of the second identifier is pending after the first
\* identifier was fetched, deleted and recorded
Wit_C20 ==
    /\ ctx.route = "delete"
    /\ Len(ctx.inflight) = 1
    /\ ctx.inflight[1].op = "delete"
    /\ ctx.inflight[1].i = 2
    /\ Len(ctx.results) = 1
    /\ ctx.results[1].success
    /\ Len(ctx.calls) = 3

-----------------------------------------------------------------------------
(* Properties of logout and of the rate limiters *)

\* process p's request has been answered
AnsweredLogout(p) ==
    gate[p].route = "logout" /\ gate[p].method = "GET" /\ gate[p].pc = "idle"

BothCleared(r) ==
    /\ \E k \in 1..Len(r.setCookies) : r.setCookies[k] = clearCookie(AUTH_COOKIE_NAME)
    /\ \E k \in 1..Len(r.setCookies) : r.setCookies[k] = clearCookie(STATE_COOKIE_NAME)

\* C14 as stated: every GET /auth/logout, whatever preceded it, is answered
\* with success and with the headers that clear both cookies.  (Stated here
\* for the requests that pass the configuration check only.)
Claim_C14 ==
    \A p \in Procs :
        (AnsweredLogout(p) /\ gate[p].by # "config") =>
            /\ gate[p].status = 200
            /\ auth.route = "logout"
            /\ BothCleared(auth)
            /\ jar = EmptyJar

\* this step is the logout handler answering process p's request
LogoutStep(p) ==
    /\ gate[p].pc = "next"
    /\ gate[p].route = "logout"
    /\ gate[p].method = "GET"
    /\ gate'[p].pc = "idle"

\* this step takes in a request of process p and answers it at once, before
\* any handler
RefusedStep(p) ==
    /\ gate[p].pc \in {"idle", "get"}
    /\ gate'[p].pc = "idle"
    /\ gate'[p] # gate[p]

\* C14, amended: every logout request that passes the configuration check
\* and the auth rate limiter is answered 200 with the two headers that clear
\* the session cookie and the state cookie, whatever cookies the user agent
\* holds, and leaves it without cookies, so a second logout changes nothing;
\* a logout request refused by the limiter (429) or by the configuration
\* check (500) sets no cookie and leaves the user agent's cookies as they are.
Thm_C14 ==
    [][\A p \in Procs :
           /\ LogoutStep(p) =>
                  /\ gate'[p].status = 200
                  /\ auth' = logout
                  /\ auth'.setCookies = <<clearCookie(AUTH_COOKIE_NAME),
                                          clearCookie(STATE_COOKIE_NAME)>>
                  /\ jar' = EmptyJar
                  /\ StoreCookies(jar', auth'.setCookies) = jar'
           /\ (RefusedStep(p) /\ gate'[p].route = "logout") =>
                  /\ gate'[p].status \in {429, 500}
                  /\ jar' = jar
                  /\ auth' = auth
      ]_vars

\* a logout answered 429, the sixth auth request of the minute, after a
\* login, a successful callback and a second login
Wit_C14 ==
    /\ AnsweredLogout(1)
    /\ gate[1].status = 429
    /\ exchangeCalls = 1
    /\ uuids = 3
    /\ jar = EmptyJar
    /\ auth.route = "logout"

\* the entries of the identifier whose window is open at t
OpenWindows(store, identifier, t) ==
    {k \in DOMAIN store : k[2] = identifier /\ store[k].expiresAt > t}

\* this step is a limiter counting process p's request and letting it through
CountedStep(p) ==
    /\ gate[p].pc \in {"idle", "put"}
    /\ gate'[p].pc = "next"
    /\ gate'[p].method # "OPTIONS"
    /\ ~gate'[p].failed

\* this step is a limiter answering process p's request with 429
TooManyStep(p) ==
    /\ gate[p].pc \in {"idle", "get"}
    /\ gate'[p] # gate[p]
    /\ gate'[p].status = 429

\* C15, for the in-memory limiter: a request that finds no open window of
\* its identifier is let through and opens one (count 1, expiry now + W); a
\* request that comes before the expiry of a window in which the limiter has
\* already let L requests through is not let through; and a request is
\* answered 429 only when an open window of its identifier is full.
Claim_C15 ==
    [][~RATE_LIMIT_KV =>
           \A p \in Procs :
               LET g == gate'[p]
                   options == RouteLimiter(g.route)
                   open == OpenWindows(memoryRateLimitStore, g.identifier, now')
               IN  /\ CountedStep(p) =>
                          /\ \A k \in open :
                                 ~(/\ MapHas(admitted, <<options, k>>)
                                   /\ admitted[<<options, k>>] >= options.limit)
                          /\ open = {} =>
                                 memoryRateLimitStore'[g.key] =
                                     RateLimitEntry(1, now' + options.windowMs)
                   /\ TooManyStep(p) =>
                          \E k \in open : memoryRateLimitStore[k].count >= options.limit
      ]_vars

\* the limiter that is not this one
OtherLimiter(options) ==
    IF options = authRateLimiter THEN apiRateLimiter ELSE authRateLimiter

\* the count a limiter reads for the identifier at time t
CountHeld(options, identifier, store, data, t) ==
    LET key == getRateLimitKey(identifier, options.windowMs, t)
    IN  IF RATE_LIMIT_KV
        THEN IF kvGet(data, key, t) # <<>> THEN parseInt(kvGet(data, key, t)) ELSE 0
        ELSE IF MapHas(store, key) /\ store[key].expiresAt > t THEN store[key].count ELSE 0

\* C16: a request counted by one limiter leaves unchanged the count the
\* other limiter holds for the same client identifier.
Claim_C16 ==
    [][\A p \in Procs :
           CountedStep(p) =>
               LET other == OtherLimiter(RouteLimiter(gate'[p].route))
               IN  CountHeld(other, gate'[p].identifier, memoryRateLimitStore', kvData', now')
                       = CountHeld(other, gate'[p].identifier, memoryRateLimitStore, kvData, now')
      ]_vars

\* C17: under every interleaving of concurrent requests, the requests a
\* limiter has counted and let through under one key (one identifier, one
\* window) never exceed its limit.
Claim_C17 ==
    \A x \in DOMAIN admitted : admitted[x] <= x[1].limit

\* this step takes in a request of process p
ArriveStep(p) == gate[p].pc = "idle" /\ gate'[p] # gate[p]

\* C18: an OPTIONS request that reaches a limiter is handed on by next(),
\* is not answered 429, and leaves the in-memory store, the key-value
\* namespace and every count as they are.
Thm_C18 ==
    [][\A p \in Procs :
           (ArriveStep(p) /\ gate'[p].method = "OPTIONS" /\ gate'[p].by # "config") =>
               /\ gate'[p].pc = "next"
               /\ gate'[p].status = 0
               /\ UNCHANGED <<memoryRateLimitStore, kvData, admitted>>
      ]_vars

\* an OPTIONS request is handed on while the count of its identifier's
\* window is at the limit of the route's limiter
Wit_C18 ==
    /\ gate[1].pc = "next"
    /\ gate[1].method = "OPTIONS"
    /\ gate[1].route = "logout"
    /\ CountHeld(authRateLimiter, gate[1].identifier, memoryRateLimitStore, kvData, now)
           >= authRateLimiter.limit

-----------------------------------------------------------------------------
(* Properties of the configuration check and the middleware chain *)

\* this step takes an /api request through validateConfigMiddleware
ReceiveStep == ctx.pc = "idle" /\ ctx'.pc # "idle"

\* C22: while the signing secret is absent or shorter than 32 characters,
\* every request is answered 500 by the configuration check: no limiter
\* counts it, no route handler runs (no state or session cookie is set, no
\* code is exchanged, no token is signed), no session token is verified and
\* no upstream call is made.
Thm_C22 ==
    ~ensureStrongSecret(JWT_SECRET) =>
        /\ \A p \in Procs :
               /\ gate[p].pc = "idle"
               /\ gate[p] # IdleGate => gate[p].status = 500 /\ gate[p].by = "config"
        /\ memoryRateLimitStore = EmptyMap /\ kvData = EmptyMap /\ admitted = EmptyMap
        /\ auth = NoAuth \/ (auth.by = "config" /\ auth.status = 500)
        /\ uuids = 0 /\ exchangeCalls = 0 /\ jar = EmptyJar
        /\ ctx = IdleCtx \/ (ctx.pc = "done" /\ ctx.by = "config" /\ ctx.status = 500)
        /\ ctx.calls = <<>>

\* under a secret of 31 characters a POST /api/delete was answered 500 by
\* the configuration check
Wit_C22 ==
    /\ JWT_SECRET = MIN_SECRET_LENGTH - 1
    /\ gate[1].route = "delete"
    /\ gate[1].status = 500
    /\ gate[1].by = "config"
    /\ configValidationError

\* the fixed messages of the 401 and 500 responses
GenericMessages ==
    {"Authentication required", "Invalid authentication token", "Authentication failed",
     "External service error", "An error occurred", "Server configuration error"}

\* C25: unless the environment flag says development, the body of every 401
\* and 500 response of the session-gated endpoints holds one of the fixed
\* generic messages, never the message of the underlying error; this
\* includes a deployment whose flag is not set.
Claim_C25 ==
    (/\ ctx.pc = "done"
     /\ ctx.status \in {401, 500}
     /\ ENVIRONMENT # "development") => ctx.res.error \in GenericMessages

\* the request carries, as bearer token or as cookie, a token that passes
\* every check of verifyJWT at clock reading t
BearerValid(cred, t) == cred.scheme = "Bearer" /\ ~Unacceptable(cred.bearer, t)
CookieValid(cred, t) == ~Unacceptable(cred.cookie, t)

\* the request carries a token by neither transport
NoTransport(cred) ==
    /\ cred.scheme # "Bearer" \/ cred.bearer = NoJwt
    /\ cred.cookie = NoJwt

\* C26 as stated: a request with a valid session token in its Authorization
\* header or in its auth_token cookie is authenticated, and a request with a
\* token in neither is answered 401.
Claim_C26 ==
    [][VerifyStep =>
           /\ (BearerValid(ctx.cred, now') \/ CookieValid(ctx.cred, now')) => Accepted(ctx')
           /\ NoTransport(ctx.cred) => Rejected401(ctx')
      ]_vars

\* C26, amended: the token is taken from an Authorization header with the
\* Bearer scheme when there is one, and from the auth_token cookie only when
\* there is none.  The request is authenticated, with the identity and the
\* upstream token of that token, exactly when that token is valid; a Bearer
\* header with an invalid or empty token is answered 401 whatever the cookie
\* holds; a request with a token in neither transport is answered 401
\* 'Authentication required'.
Thm_C26 ==
    [][VerifyStep =>
           LET used == IF ctx.cred.scheme = "Bearer" THEN ctx.cred.bearer
                       ELSE ctx.cred.cookie
           IN  /\ Accepted(ctx') <=> ~Unacceptable(used, now')
               /\ Accepted(ctx') => /\ ctx'.githubUser = used.githubUser
                                    /\ ctx'.githubToken = used.token
               /\ ~Accepted(ctx') => Rejected401(ctx')
               /\ NoTransport(ctx.cred) => ctx'.res.error = "Authentication required"
      ]_vars

\* a request with another Authorization scheme is authenticated by its cookie
Wit_C26 ==
    /\ Accepted(ctx)
    /\ ctx.cred.scheme = "Basic"
    /\ ctx.cred.cookie # NoJwt
    /\ ctx.githubUser = ctx.cred.cookie.githubUser

\* the handler of a batch request has run on a body that parsed to an object
HandledBody(c) ==
    /\ IsBatch(c)
    /\ c.pc \in {"fetch", "act"} \/ (c.pc = "done" /\ c.by = "handler")
    /\ c.body.read = "ok"

\* the repos member is no array, is empty or is longer than MAX_REPO_BATCH
BadRepoList(value) ==
    \/ value.t # "array"
    \/ Len(value.items) = 0
    \/ Len(value.items) > MAX_REPO_BATCH

\* C27: a delete or archive request whose repos member is no array, is empty
\* or has more than 100 entries, and a delete request whose dryRun member
\* is present and no boolean, is answered 400 and makes no upstream call.
Thm_C27 ==
    (/\ HandledBody(ctx)
     /\ \/ BadRepoList(ctx.body.repos)
        \/ ctx.route = "delete" /\ ctx.body.dryRun.t \notin {"undefined", "boolean"})
        => /\ ctx.pc = "done"
           /\ ctx.status = 400
           /\ ctx.res.kind = "error"
           /\ ctx.calls = <<>>

\* a delete request with 101 well-formed identifiers was answered 400
Wit_C27 ==
    /\ HandledBody(ctx)
    /\ ctx.route = "delete"
    /\ Len(ctx.body.repos.items) = MAX_REPO_BATCH + 1
    /\ ctx.body.dryRun = JUndefined
    /\ ctx.status = 400
    /\ ctx.res.error = "Invalid request: maximum of 100 repositories per request"

\* the handler is inside its loop over the validated list
InLoop(c) == IsBatch(c) /\ c.pc \in {"fetch", "act", "await"}

\* the handler has answered with one result for every identifier of the list
Completed(c) ==
    /\ c.pc = "done"
    /\ c.by = "handler"
    /\ c.status = 200
    /\ Len(c.res.results) = Len(c.repos)
    /\ \A k \in 1..Len(c.repos) : c.res.results[k].repo = c.repos[k]

\* C21: once validation has passed, and provided every upstream call is
\* answered in the end, the handler goes through the whole list and then
\* answers with a result for every submitted identifier; no answer is sent
\* from inside the loop, whatever the outcomes of the calls.
Thm_C21 ==
    /\ [](Validated(ctx) /\ ctx.pc = "done" => Completed(ctx))
    /\ \A n \in 1..MaxBatch :
           (InLoop(ctx) /\ Len(ctx.repos) = n) ~> (Completed(ctx) /\ Len(ctx.repos) = n)

\* a batch of MaxBatch identifiers was answered after the fetch of the first
\* was refused and the action on the last failed
Wit_C21 ==
    /\ Completed(ctx)
    /\ Len(ctx.repos) = MaxBatch
    /\ ctx.results[1].error = "Repository not found or access denied"
    /\ ctx.results[MaxBatch].error = "GitHub API request failed"
    /\ ctx.inflight = <<>>

\* the request taken in by this step carries an Origin header that differs
\* from the serving origin
CrossOriginStep(p) ==
    /\ ArriveStep(p)
    /\ gate'[p].origin \notin {"", ServingOrigin}

\* the step leaves counters, cookies, tokens and upstream calls as they are
NoEffect ==
    UNCHANGED <<memoryRateLimitStore, kvData, admitted, ctx, uuids, jar, exchangeCalls,
                auth, spentStates, now>>

\* C23 as stated: every request with an Origin header other than the serving
\* origin is answered 403, before any limiter or handler.
Claim_C23 ==
    [][\A p \in Procs :
           CrossOriginStep(p) =>
               /\ gate'[p].pc = "idle"
               /\ gate'[p].status = 403
               /\ NoEffect
      ]_vars

\* C23, amended: a request with an Origin header other than the serving
\* origin is answered at once, with any method, OPTIONS included: 403 by the
\* CORS check when the configuration check passes, 500 by the configuration
\* check when the secret is missing or weak.  It changes no counter, cookie or
\* token, causes no verification and no upstream call, and its response
\* carries no Access-Control-Allow-Origin header; the only origin any
\* response ever allows is the serving one, to a request of that origin.
Thm_C23 ==
    [][\A p \in Procs :
           /\ CrossOriginStep(p) =>
                  /\ gate'[p].pc = "idle"
                  /\ gate'[p].status = (IF validateConfig THEN 403 ELSE 500)
                  /\ gate'[p].by = (IF validateConfig THEN "cors" ELSE "config")
                  /\ NoEffect
           /\ \A h \in gate'[p].headers :
                  h[1] = "Access-Control-Allow-Origin" =>
                      h[2] = ServingOrigin /\ gate'[p].origin = ServingOrigin
      ]_vars

\* a POST /api/delete of another origin is answered 403 after the client
\* has started a login and has been counted by a limiter
Wit_C23 ==
    /\ gate[1].status = 403
    /\ gate[1].by = "cors"
    /\ gate[1].origin = OtherOrigin
    /\ gate[1].route = "delete"
    /\ gate[1].method = "POST"
    /\ jar.oauth_state # 0
    /\ memoryRateLimitStore # EmptyMap

\* C24: every response to POST /api/delete and POST /api/archive, whichever
\* layer sends it and whatever its status, carries the X-Request-ID header.
Claim_C24 ==
    /\ \A p \in Procs :
           (/\ gate[p].pc = "idle"
            /\ gate[p].status # 0
            /\ gate[p].route \in {"delete", "archive"}
            /\ gate[p].method = "POST")
               => "X-Request-ID" \in ResponseHeaders(gate[p].headers, gate[p].by)
    /\ (ctx.pc = "done" /\ IsBatch(ctx))
           => "X-Request-ID" \in ResponseHeaders(ctx.headers, ctx.by)

\* the request in flight lists the repositories
IsListing(c) == c.route = "repos" /\ c.pc \in {"page", "done"} /\ c.by # "verifyJWT"
                    /\ c.by # "config"

\* the pages a list of n repositories takes: up to the first that is not full
PagesOf(n) == (n \div PER_PAGE) + 1

\* C28: the lister asks for pages 1, 2, 3, ... of 100 items one at a time,
\* stops after the first page with fewer than 100 items and answers with the
\* items of all pages in the provider's order; a failure of any page gives a
\* 500 without a list; and the listing of every finite list ends, a list of
\* an exact multiple of 100 repositories included.
Thm_C28 ==
    /\ [](IsListing(ctx) =>
             /\ \A k \in 1..Len(ctx.pages) : ctx.pages[k] = k
             /\ ctx.pc = "page" =>
                    /\ ctx.page = Len(ctx.pages) + 1
                    /\ ctx.listed = [k \in 1..(PER_PAGE * Len(ctx.pages)) |-> k]
                    /\ ctx.page > 1 => ctx.page <= PagesOf(ctx.upstream)
             /\ (ctx.pc = "done" /\ ctx.status = 200) =>
                    /\ Len(ctx.pages) = PagesOf(ctx.upstream)
                    /\ ctx.res.kind = "repos"
                    /\ ctx.res.results = [k \in 1..ctx.upstream |-> k]
             /\ (ctx.pc = "done" /\ ctx.status # 200) =>
                    /\ ctx.status = 500
                    /\ ctx.res.kind = "error"
                    /\ ctx.res.results = <<>>)
    /\ (ctx.pc = "page") ~> (ctx.pc = "done")

\* a list of 200 repositories was returned after pages 1, 2 and the empty 3
Wit_C28 ==
    /\ IsListing(ctx)
    /\ ctx.pc = "done"
    /\ ctx.status = 200
    /\ ctx.upstream = 2 * PER_PAGE
    /\ ctx.pages = <<1, 2, 3>>
    /\ Len(ctx.res.results) = 2 * PER_PAGE

\* C29: a POST /api/delete that is not a dry run is sent only after the
\* confirmation modal was opened and the user typed exactly DELETE and pressed
\* confirm; cancelling, or confirming with any other text, sends none.
Claim_C29 ==
    \A k \in 1..Len(dashboard.sent) :
        (dashboard.sent[k].route = "delete" /\ ~dashboard.sent[k].dryRun)
            => dashboard.sent[k].typed = "DELETE"

\* C30: once a request has been validated, with either outcome, validateConfig
\* returns the cached outcome to every later request and does not call
\* ensureStrongSecret again.
Claim_C30 ==
    [][(ReceiveStep /\ (configValidated \/ configValidationError)) =>
           /\ ~validateConfigEvaluates
           /\ UNCHANGED <<configValidated, configValidationError>>
      ]_vars

-----------------------------------------------------------------------------
(* Properties of the results, the limiter's store and the page *)

\* the results the handler has pushed and those of the response it has sent
ResultsOf(c) == IF c.pc = "done" /\ c.status = 200 THEN c.res.results ELSE c.results

Thm_C32 ==
    [][\A k \in DOMAIN memoryRateLimitStore :
           /\ k \notin DOMAIN memoryRateLimitStore' =>
                  /\ Cardinality(DOMAIN memoryRateLimitStore \cup {gate'[1].key})
                         > HIGH_WATER_MARK
                  /\ memoryRateLimitStore[k].expiresAt <= now'
           /\ (k \in DOMAIN memoryRateLimitStore'
                  /\ memoryRateLimitStore[k].expiresAt > now') =>
                  /\ memoryRateLimitStore'[k].expiresAt = memoryRateLimitStore[k].expiresAt
                  /\ memoryRateLimitStore'[k].count >= memoryRateLimitStore[k].count
      ]_vars

\* the sweep has removed the stale entries and kept the entry of a client
\* that is at its second request or later in the open window
Wit_C32 ==
    /\ Cardinality(DOMAIN memoryRateLimitStore) < HIGH_WATER_MARK - 1
    /\ \E k \in DOMAIN memoryRateLimitStore :
           /\ memoryRateLimitStore[k].count >= 2
           /\ memoryRateLimitStore[k].expiresAt > now

\* the key of the client's requests to the batch routes in the first minute
BatchKey == getRateLimitKey(ClientIp, apiRateLimiter.windowMs, 0)

\* the count the limiter's store holds under the key
CountOf(store, data, key) ==
    IF RATE_LIMIT_KV
    THEN IF MapHas(data, key) THEN parseInt(data[key].value) ELSE 0
    ELSE IF MapHas(store, key) THEN store[key].count ELSE 0

\* the batch request in flight was rejected by verifyJWT or by validation
RejectedLater(c) == IsBatch(c) /\ c.pc = "done" /\ c.status \in {400, 401}

\* C33 as stated: a batch request that is rejected with 401 or 400 has
\* already been counted against its client identifier's window.
Claim_C33 ==
    RejectedLater(ctx) => CountOf(memoryRateLimitStore, kvData, BatchKey) >= 1

\* a step of the limiter and of what follows it
GateFirst ==
    /\ (gate'[1] # gate[1] /\ gate'[1].status = 429) =>
           /\ gate'[1].pc = "idle"
           /\ gate'[1].by = "limiter"
           /\ UNCHANGED <<ctx, authVars, memoryRateLimitStore, kvData>>
    /\ (ctx.pc = "idle" /\ ctx'.pc # "idle") =>
           /\ gate[1].pc = "next"
           /\ gate'[1].by = "next"
           /\ ctx'.calls = <<>>
    /\ (gate[1].pc # "next" /\ gate'[1].pc = "next" /\ ~gate'[1].failed) =>
           CountOf(memoryRateLimitStore', kvData', gate'[1].key)
               = CountOf(memoryRateLimitStore, kvData, gate'[1].key) + 1

\* C33: on /api/delete and /api/archive the limiter runs before verifyJWT and
\* the handler: a request answered 429 causes no token verification and no
\* upstream call and goes no further; a request reaches verifyJWT only from
\* next() of the limiter; and the limiter has counted every request it hands
\* on, 401 and 400 to come included, unless a read or write of the key-value
\* store failed.
Thm_C33 ==
    /\ [](RejectedLater(ctx) /\ ~RATE_LIMIT_KV =>
             CountOf(memoryRateLimitStore, kvData, BatchKey) >= 1)
    /\ [][GateFirst]_vars

\* the eleventh request of the minute was answered 429 while the store
\* counts ten and nothing is with verifyJWT or the handler
TooManyAtLimit ==
    /\ gate[1].status = 429
    /\ CountOf(memoryRateLimitStore, kvData, BatchKey) = apiRateLimiter.limit
    /\ ctx.pc = "idle"

\* a counted request without a session was answered 401 by verifyJWT
Wit_C33 ==
    /\ RejectedLater(ctx)
    /\ ctx.status = 401
    /\ ~gate[1].failed
    /\ gate[1].by = "next"
    /\ CountOf(memoryRateLimitStore, kvData, BatchKey) >= 1

\* the limiters that read and write memoryRateLimitStore
Limiters == {authRateLimiter, apiRateLimiter}

\* C34: in the in-memory limiter, every stored entry has a count of at least
\* 1 and at most the limiter's limit in every reachable state, and a request
\* answered 429 leaves the entry's count and expiry as they are.
Claim_C34 ==
    /\ [](\A options \in Limiters, k \in DOMAIN memoryRateLimitStore :
             /\ 1 <= memoryRateLimitStore[k].count
             /\ memoryRateLimitStore[k].count <= options.limit)
    /\ [][\A p \in Procs : TooManyStep(p) => memoryRateLimitStore' = memoryRateLimitStore]_vars

\* C35: a client that has been rejected with 429 is allowed again by the
\* first request it makes at or after the expiry of the window it was
\* rejected in; requests inside a window do not extend its expiry.
Claim_C35 ==
    [][\A p \in Procs :
           /\ (/\ ArriveStep(p)
               /\ gate[p].status = 429
               /\ gate[p].by = "limiter"
               /\ gate'[p].identifier = gate[p].identifier
               /\ MapHas(memoryRateLimitStore, gate[p].key)
               /\ now < memoryRateLimitStore[gate[p].key].expiresAt
               /\ now' >= memoryRateLimitStore[gate[p].key].expiresAt)
                  => gate'[p].status # 429
           /\ \A k \in DOMAIN memoryRateLimitStore :
                  memoryRateLimitStore[k].expiresAt > now' =>
                      memoryRateLimitStore'[k].expiresAt = memoryRateLimitStore[k].expiresAt
      ]_vars

\* the key-value store throws at the read or the write of process p's request
KvFailureStep(p) == gate[p].pc \in {"get", "put"} /\ gate'[p].failed

\* C36: with the key-value store configured, a failure of its read or write
\* never rejects a request: the limiter hands the request on by next(), with
\* nothing written; a 429 is produced only when a count was read and is at
\* or above the limit.
Thm_C36 ==
    [][RATE_LIMIT_KV =>
           \A p \in Procs :
               /\ KvFailureStep(p) =>
                      /\ gate'[p].pc = "next"
                      /\ gate'[p].status = 0
                      /\ kvData' = kvData
               /\ TooManyStep(p) =>
                      /\ gate[p].pc = "get"
                      /\ ~gate'[p].failed
                      /\ kvGet(kvData, gate[p].key, now) # <<>>
                      /\ parseInt(kvGet(kvData, gate[p].key, now))
                             >= RouteLimiter(gate[p].route).limit
      ]_vars

\* the read failed while the stored count was at the limit, and the request
\* was handed on
Wit_C36 ==
    /\ RATE_LIMIT_KV
    /\ gate[1].failed
    /\ gate[1].pc = "next"
    /\ gate[1].count = 0
    /\ CountHeld(RouteLimiter(gate[1].route), gate[1].identifier, memoryRateLimitStore,
                 kvData, now) >= RouteLimiter(gate[1].route).limit

\* the k-th submitted identifier without its surrounding white space
Trimmed(c, k) == Trim(c.body.repos.items[k].s)

\* the places of the slashes of an identifier
Slashes(id) == {i \in 1..Len(id) : id[i] = "/"}

\* the identifier an upstream call was made for: the n-th call belongs to
\* the turn of the loop that made the last fetch up to it
TurnOf(c, n) == Cardinality({m \in 1..n : c.calls[m].op = "get"})

\* C37: validation trims the white space around each identifier and the
\* trimmed form is what is fetched, acted on and reported: results[i].repo is
\* the trimmed i-th submitted identifier, and the owner and the name given to
\* every upstream call are the two parts of that trimmed identifier around
\* its single '/'.
Thm_C37 ==
    Validated(ctx) =>
        /\ Len(ctx.repos) = Len(ctx.body.repos.items)
        /\ \A k \in 1..Len(ctx.repos) : ctx.repos[k] = Trimmed(ctx, k)
        /\ \A k \in 1..Len(ResultsOf(ctx)) : ResultsOf(ctx)[k].repo = Trimmed(ctx, k)
        /\ \A n \in 1..Len(ctx.calls) :
               LET id == Trimmed(ctx, TurnOf(ctx, n))
                   at == SetMin(Slashes(id))
               IN  /\ Cardinality(Slashes(id)) = 1
                   /\ ctx.calls[n].owner = SubSeq(id, 1, at - 1)
                   /\ ctx.calls[n].repo = SubSeq(id, at + 1, Len(id))

\* " a/x " was submitted after b/y to /api/archive: b/y and a/x were fetched,
\* archived and reported
Wit_C37 ==
    /\ BatchDone(ctx)
    /\ ctx.route = "archive"
    /\ ctx.body.repos.items = <<JStr(IdBY), JStr(IdPadded)>>
    /\ ctx.res.results[2] = ActionResult(IdAX, TRUE, "")
    /\ Len(ctx.calls) = 4
    /\ ctx.calls[4] = UpstreamCall("update", <<"a">>, <<"x">>, TRUE, "")

\* C38: every identifier the dashboard submits in a delete request is a
\* repository shown in the filtered list when it is submitted; after any
\* sequence of selecting, select-all, changing the search term or the
\* visibility filter, and reloading the list, no repository is selected that
\* the table does not show.
Claim_C38 ==
    /\ \A k \in 1..Len(dashboard.sent) : dashboard.sent[k].repos \subseteq dashboard.sent[k].shown
    /\ ~dashboard.error => dashboard.selected \subseteq filteredRepos(dashboard)

====
